---- MODULE Spec2Model ----
(***************************************************************************)
(* Model of src/src/prepare_tableau.py: the quadkey decoder                *)
(* (TableauDataPreparer._decode_quadkey_to_latlon), the bin aggregation    *)
(* (TableauDataPreparer._aggregate_data), the export of the bins           *)
(* (_export_to_excel, _create_excel_file) and the comparison of periods    *)
(* (_create_comparison_file), the entry point prepare_tableau_data; of     *)
(* src/src/ibtracs_extractor.py (IBTracsExtractor.extract_track), of       *)
(* src/src/data_loader.py (NaturalEarthLoader), of                         *)
(* src/src/download_ookla.py (OoklaDownloader.set_region, download) and of *)
(* src/src/download_natural_earth.py (download_natural_earth).             *)
(*                                                                         *)
(* Numbers.  Python integers are unbounded; the bounds below keep every    *)
(* intermediate value inside TLC's 32-bit integers.  Exact quotients       *)
(* (pixel/map_size, means) are rationals [num, den] in lowest terms, and   *)
(* NaN is the rational 0/0.  The two library calls np.exp and np.arctan    *)
(* are binary fixed-point series with 24 fractional bits (absolute     *)
(* error below 4 units in the last place, about 2.5e-7); the latitude is   *)
(* carried in micro-degrees.                                               *)
(***************************************************************************)
EXTENDS Integers, Sequences, FiniteSets, TLC

\* Longest quadkey the decoder is driven with.
MaxLen == 3
\* Most rows of an input table handed to the aggregation.
MaxRows == 3

(***************************************************************************)
(* Integer helpers                                                         *)
(***************************************************************************)
Abs(a) == IF a < 0 THEN -a ELSE a
Sign(a, b) == IF (a >= 0) = (b >= 0) THEN 1 ELSE -1
\* Quotient truncated toward zero: the rounding of the fixed-point series.
DivTrunc(a, k) == IF a >= 0 THEN a \div k ELSE -((-a) \div k)

RECURSIVE GCD(_, _)
GCD(a, b) == IF b = 0 THEN a ELSE GCD(b, a % b)

\* Python's a << n on non-negative integers.
Shl(a, n) == a * (2 ^ n)

\* Python's a | b on non-negative integers.
RECURSIVE BitOr(_, _)
BitOr(a, b) ==
    IF a = 0 THEN b
    ELSE IF b = 0 THEN a
    ELSE 2 * BitOr(a \div 2, b \div 2) + (IF a % 2 = 1 \/ b % 2 = 1 THEN 1 ELSE 0)

\* Bit n of a non-negative integer.
Bit(a, n) == (a \div (2 ^ n)) % 2

(***************************************************************************)
(* Rationals in lowest terms, with the three special values of a float:   *)
(* NaN is 0/0, +inf is 1/0 and -inf is -1/0                                *)
(***************************************************************************)
NaN == [num |-> 0, den |-> 0]
Inf == [num |-> 1, den |-> 0]
NegInf == [num |-> -1, den |-> 0]
IsNaN(r) == r.den = 0 /\ r.num = 0
IsInf(r) == r.den = 0 /\ r.num # 0

Rat(n, d) ==
    IF d = 0 THEN (IF n = 0 THEN NaN ELSE IF n > 0 THEN Inf ELSE NegInf)
    ELSE LET g == GCD(Abs(n), Abs(d))
             s == IF d < 0 THEN -1 ELSE 1
         IN [num |-> s * (n \div g), den |-> s * (d \div g)]
RatInt(n) == [num |-> n, den |-> 1]
RatNeg(a) == [num |-> -a.num, den |-> a.den]
RatAdd(a, b) == IF IsNaN(a) \/ IsNaN(b) THEN NaN
                ELSE IF IsInf(a) THEN (IF IsInf(b) /\ b # a THEN NaN ELSE a)
                ELSE IF IsInf(b) THEN b
                ELSE Rat(a.num * b.den + b.num * a.den, a.den * b.den)
RatSub(a, b) == RatAdd(a, RatNeg(b))
RatMul(a, b) == IF IsNaN(a) \/ IsNaN(b) THEN NaN
                ELSE Rat(a.num * b.num, a.den * b.den)
\* Float division: a non-zero number over zero is an infinity, zero over
\* zero is NaN, and nothing is raised (the operands are numpy floats).
RatDiv(a, b) == IF IsNaN(a) \/ IsNaN(b) THEN NaN
                ELSE LET s == IF b.num < 0 THEN -1 ELSE 1
                     IN Rat(s * a.num * b.den, s * a.den * b.num)
\* Float comparison: false as soon as one side is NaN.
RatLess(a, b) == /\ ~IsNaN(a) /\ ~IsNaN(b)
                 /\ IF IsInf(a) /\ IsInf(b) THEN a.num < b.num
                    ELSE a.num * b.den < b.num * a.den
RatLeq(a, b) == ~IsNaN(a) /\ ~IsNaN(b) /\ (a = b \/ RatLess(a, b))
Half == [num |-> 1, den |-> 2]

(***************************************************************************)
(* Binary fixed point for np.exp and np.arctan                             *)
(***************************************************************************)
\* One, with 24 fractional bits, and the half word of 12 bits.
FPOne == 2 ^ 24
FPHalfWord == 2 ^ 12

\* a * b / FPOne on non-negative operands, by half words so that no
\* intermediate product leaves 32 bits.
MulAbs(a, b) ==
    LET a1 == a \div FPHalfWord
        a0 == a % FPHalfWord
        b1 == b \div FPHalfWord
        b0 == b % FPHalfWord
    IN a1 * b1 + ((a1 * b0 + a0 * b1) \div FPHalfWord) + ((a0 * b0) \div FPOne)
MulFP(a, b) == Sign(a, b) * MulAbs(Abs(a), Abs(b))

\* n further quotient bits of r / b (long division), r < b.
RECURSIVE DivBits(_, _, _, _)
DivBits(r, b, n, acc) ==
    IF n = 0 THEN acc
    ELSE IF 2 * r >= b THEN DivBits(2 * r - b, b, n - 1, 2 * acc + 1)
    ELSE DivBits(2 * r, b, n - 1, 2 * acc)
\* a / b as a fixed-point number, for integers or fixed-point numbers a, b.
DivFP(a, b) == Sign(a, b) * DivBits(Abs(a) % Abs(b), Abs(b), 24, Abs(a) \div Abs(b))

\* A rational as a fixed-point number.
Fixed(r) == DivFP(r.num, r.den)

\* np.pi, pi/2 and arctan(1/2), rounded to 24 fractional bits.
PI_FP == 52707179
HALF_PI_FP == 26353589
ATAN_HALF_FP == 7778716
\* 360/pi degrees per radian, in micro-degrees (360e6/pi rounded).
UDEG_PER_RAD == 114591559
\* Terms of the two series; the first omitted term is below one unit in the
\* last place over the arguments the decoder produces.
ExpTerms == 20
AtanTerms == 9

\* np.exp(t): 1 + t + t^2/2! + ..., for |t| <= pi.
RECURSIVE ExpSeries(_, _, _, _)
ExpSeries(t, k, term, acc) ==
    IF k > ExpTerms THEN acc
    ELSE LET next == DivTrunc(MulFP(term, t), k)
         IN ExpSeries(t, k + 1, next, acc + next)
np_exp(t) == ExpSeries(t, 1, FPOne, FPOne)

\* arctan(v) = v - v^3/3 + v^5/5 - ..., for |v| <= 1/3.
RECURSIVE AtanSeries(_, _, _, _)
AtanSeries(v2, k, pow, acc) ==
    IF k > AtanTerms THEN acc
    ELSE LET next == -MulFP(pow, v2)
         IN AtanSeries(v2, k + 1, next, acc + DivTrunc(next, 2 * k + 1))
AtanSmall(v) == AtanSeries(MulFP(v, v), 1, v, v)
\* arctan on [0, 1]: arctan(w) = arctan(1/2) + arctan((w - 1/2)/(1 + w/2)).
AtanUnit(w) ==
    IF 4 * w > FPOne
    THEN ATAN_HALF_FP + AtanSmall(DivFP(w - (FPOne \div 2), FPOne + (w \div 2)))
    ELSE AtanSmall(w)
\* np.arctan(u) for u > 0: arctan(u) = pi/2 - arctan(1/u) above 1.
np_arctan(u) ==
    IF u > FPOne THEN HALF_PI_FP - AtanUnit(DivFP(FPOne, u)) ELSE AtanUnit(u)

(***************************************************************************)
(* _decode_quadkey_to_latlon                                               *)
(***************************************************************************)
\* Characters a quadkey is drawn from: the four quadrant digits, a decimal
\* digit that is no quadrant, and a letter.
Chars == {"0", "1", "2", "3", "4", "a"}
ValidDigits == {"0", "1", "2", "3"}
Quadkeys == UNION {[1..n -> Chars] : n \in 0..MaxLen}
IsValidQuadkey(q) == Len(q) >= 1 /\ \A i \in 1..Len(q) : q[i] \in ValidDigits

\* Python's int(ch) on one character: the decimal digits convert, anything
\* else raises ValueError.
DecimalDigits == {"0", "1", "2", "3", "4", "5", "6", "7", "8", "9"}
IntRaises(ch) == ch \notin DecimalDigits
py_int(ch) ==
    CASE ch = "0" -> 0 [] ch = "1" -> 1 [] ch = "2" -> 2 [] ch = "3" -> 3
      [] ch = "4" -> 4 [] ch = "5" -> 5 [] ch = "6" -> 6 [] ch = "7" -> 7
      [] ch = "8" -> 8 [] ch = "9" -> 9

\* mask = 1 << (level_of_detail - 1 - i)
mask_of(level_of_detail, i) == Shl(1, level_of_detail - 1 - i)

\* The if/elif chain on the digit: the new (tile_x, tile_y).
set_bits_x_y_exchanged(digit, mask, tile_x, tile_y) ==
    IF digit = 2 THEN <<BitOr(tile_x, mask), tile_y>>
    ELSE IF digit = 1 THEN <<tile_x, BitOr(tile_y, mask)>>
    ELSE IF digit = 3 THEN <<BitOr(tile_x, mask), BitOr(tile_y, mask)>>
    ELSE <<tile_x, tile_y>>
set_bits(digit, mask, tile_x, tile_y) ==
    IF digit = 1 THEN <<BitOr(tile_x, mask), tile_y>>
    ELSE IF digit = 2 THEN <<tile_x, BitOr(tile_y, mask)>>
    ELSE IF digit = 3 THEN <<BitOr(tile_x, mask), BitOr(tile_y, mask)>>
    ELSE <<tile_x, tile_y>>

\* The for loop over the characters, from position i (0-indexed as in the
\* code) with the accumulators so far.
RECURSIVE decode_loop(_, _, _, _)
decode_loop(quadkey, i, tile_x, tile_y) ==
    IF i = Len(quadkey)
    THEN [raised |-> FALSE, tile_x |-> tile_x, tile_y |-> tile_y]
    ELSE IF IntRaises(quadkey[i + 1])
    THEN [raised |-> TRUE, tile_x |-> tile_x, tile_y |-> tile_y]
    ELSE LET t == set_bits(py_int(quadkey[i + 1]), mask_of(Len(quadkey), i),
                           tile_x, tile_y)
         IN decode_loop(quadkey, i + 1, t[1], t[2])

\* pixel = tile * 256 + 128, the centre of the tile.
pixel_at_far_corner(tile) == (tile * 256) + 256
pixel_center(tile) == (tile * 256) + 128

\* y = 0.5 - pixel_y / map_size
normalized_y_sign_flipped(pixel_y, map_size) == RatSub(Rat(pixel_y, map_size), Half)
normalized_y(pixel_y, map_size) == RatSub(Half, Rat(pixel_y, map_size))
\* x = pixel_x / map_size - 0.5
normalized_x(pixel_x, map_size) == RatSub(Rat(pixel_x, map_size), Half)

\* latitude = 90 - 360 * arctan(exp(-y * 2 * pi)) / pi, in micro-degrees.
latitude_of(y) ==
    LET t == MulFP((-Fixed(y)) * 2, PI_FP)
    IN 90000000 - MulFP(np_arctan(np_exp(t)), UDEG_PER_RAD)
\* longitude = 360 * x, in degrees, exact.
longitude_of(x) == RatMul(RatInt(360), x)

\* The whole call: what it returns, or that it raised, with its locals.
NoDecode ==
    [status |-> "idle", error |-> "", tile_x |-> 0, tile_y |-> 0, map_size |-> 0,
     pixel_x |-> 0, pixel_y |-> 0, x |-> NaN, y |-> NaN,
     latitude |-> 0, longitude |-> NaN]
_decode_quadkey_to_latlon(quadkey) ==
    LET level_of_detail == Len(quadkey)
        loop == decode_loop(quadkey, 0, 0, 0)
        map_size == Shl(256, level_of_detail)
        pixel_x == pixel_center(loop.tile_x)
        pixel_y == pixel_center(loop.tile_y)
        x == normalized_x(pixel_x, map_size)
        y == normalized_y(pixel_y, map_size)
    IN IF loop.raised
       THEN [NoDecode EXCEPT !.status = "raised", !.error = "ValueError",
                             !.tile_x = loop.tile_x, !.tile_y = loop.tile_y]
       ELSE [status |-> "returned", error |-> "",
             tile_x |-> loop.tile_x, tile_y |-> loop.tile_y, map_size |-> map_size,
             pixel_x |-> pixel_x, pixel_y |-> pixel_y, x |-> x, y |-> y,
             latitude |-> latitude_of(y), longitude |-> longitude_of(x)]

(***************************************************************************)
(* _aggregate_data                                                         *)
(*                                                                         *)
(* A table (DataFrame) is [columns, rows]: the set of its column names and *)
(* the sequence of its rows, each row a function from the column names to  *)
(* cell values.  Measurement and count cells are rationals (NaN when       *)
(* missing), string cells are strings (NA when missing), a quadkey is the  *)
(* sequence of its characters, a latitude is in micro-degrees, a year or a *)
(* quarter is an integer (NaNInt when missing).                            *)
(***************************************************************************)
NA == "<NA>"
StringColumns == {"data_type", "name", "region", "country"}
\* A missing year or quarter: equal to nothing, sorted after everything.
NaNInt == -1

\* np.sqrt of a rational, kept symbolic; the square root of NaN is NaN.
Sqrt(r) == [sqrt_of |-> r]

\* latlon_data = df['quadkey'].apply(self._decode_quadkey_to_latlon)
\* The decoder applied to the quadkey of each row from row i on.
RECURSIVE latlon_data(_, _)
latlon_data(rows, i) ==
    IF i > Len(rows) THEN << >>
    ELSE <<_decode_quadkey_to_latlon(rows[i]["quadkey"])>> \o latlon_data(rows, i + 1)
\* The apply raises as soon as one call of the decoder raises.
apply_raises(latlon) ==
    \E i \in 1..Len(latlon) : latlon[i].status = "raised"
\* df['latitude'] = [x[0] for x in latlon_data]
\* df['longitude'] = [x[1] for x in latlon_data]  (the caller's table is changed)
RECURSIVE set_latlon(_, _, _)
set_latlon(rows, latlon, i) ==
    IF i > Len(rows) THEN << >>
    ELSE <<("latitude" :> latlon[i].latitude) @@ ("longitude" :> latlon[i].longitude)
           @@ rows[i]>>
         \o set_latlon(rows, latlon, i + 1)
with_latlon(df, latlon) ==
    [columns |-> df.columns \cup {"latitude", "longitude"},
     rows |-> set_latlon(df.rows, latlon, 1)]

\* agg_dict, in the order it is built: each column with its statistics, and
\* whether they are given as a list.
BaseRules ==
    << [col |-> "avg_d_kbps", funcs |-> <<"mean", "min", "max", "std">>, listed |-> TRUE],
       [col |-> "avg_u_kbps", funcs |-> <<"mean", "min", "max", "std">>, listed |-> TRUE],
       [col |-> "avg_lat_ms", funcs |-> <<"mean", "min", "max">>, listed |-> TRUE],
       [col |-> "tests", funcs |-> <<"sum">>, listed |-> FALSE],
       [col |-> "devices", funcs |-> <<"sum">>, listed |-> FALSE] >>
OptionalRules(columns) ==
    (IF "avg_d_mbps" \in columns
     THEN << [col |-> "avg_d_mbps", funcs |-> <<"mean", "min", "max">>, listed |-> TRUE] >>
     ELSE << >>)
    \o
    (IF "avg_u_mbps" \in columns
     THEN << [col |-> "avg_u_mbps", funcs |-> <<"mean", "min", "max">>, listed |-> TRUE] >>
     ELSE << >>)
\* agg_dict = {k: v for k, v in agg_dict.items() if k in df.columns}
agg_dict(columns) ==
    LET present(r) == r.col \in columns
    IN SelectSeq(BaseRules \o OptionalRules(columns), present)

\* group_cols: the four fixed columns, then the optional ones that exist.
OptionalGroupColumns == <<"name", "region", "country", "latitude", "longitude">>
group_cols(columns) ==
    LET present(c) == c \in columns
    IN <<"quadkey", "year", "quarter", "data_type">> \o SelectSeq(OptionalGroupColumns, present)

\* The group key of a row: its values in the grouping columns, from the
\* i-th of them on.
RECURSIVE row_key(_, _, _)
row_key(row, gc, i) ==
    IF i > Len(gc) THEN << >> ELSE <<row[gc[i]]>> \o row_key(row, gc, i + 1)

\* groupby sorts the groups by key (sort=True, the default), a missing value
\* after every value.  Strings compare as Python compares them: character
\* by character, the shorter one first; the characters and the strings of
\* the tables, in that order:
CharOrder == <<"0", "1", "2", "3", "4", "a">>
StringOrder == <<"Aceh", "fixed", "mobile">>
RankIn(order, v) == CHOOSE i \in 1..Len(order) : order[i] = v
RECURSIVE quadkey_less(_, _, _)
quadkey_less(a, b, i) ==
    IF i > Len(a) THEN i <= Len(b)
    ELSE IF i > Len(b) THEN FALSE
    ELSE IF a[i] # b[i] THEN RankIn(CharOrder, a[i]) < RankIn(CharOrder, b[i])
    ELSE quadkey_less(a, b, i + 1)
\* a before b in the column col.
cell_less(col, a, b) ==
    CASE col = "quadkey" -> quadkey_less(a, b, 1)
      [] col \in StringColumns ->
            a # NA /\ (b = NA \/ RankIn(StringOrder, a) < RankIn(StringOrder, b))
      [] col = "longitude" -> RatLess(a, b) \/ (~IsNaN(a) /\ IsNaN(b))
      [] OTHER -> a # NaNInt /\ (b = NaNInt \/ a < b)
\* One key before another: the first grouping column that differs decides.
RECURSIVE key_less(_, _, _, _)
key_less(gc, ka, kb, i) ==
    IF i > Len(gc) THEN FALSE
    ELSE IF ka[i] # kb[i] THEN cell_less(gc[i], ka[i], kb[i])
    ELSE key_less(gc, ka, kb, i + 1)
\* A new group put at its place among the sorted groups.
insert_group(groups, new, gc) ==
    LET before == Cardinality({j \in 1..Len(groups) : key_less(gc, groups[j].key, new.key, 1)})
    IN SubSeq(groups, 1, before) \o <<new>> \o SubSeq(groups, before + 1, Len(groups))

\* groupby(..., dropna=False): a row whose key holds a missing value is kept.
keeps_only_rows_without_missing_key(row, gc) ==
    \A i \in 1..Len(gc) : gc[i] \in StringColumns => row[gc[i]] # NA
keeps_row(row, gc) == TRUE

\* The running reduction of one column within one group.  Missing values are
\* skipped by every statistic.
EmptyAcc == [n |-> 0, sum |-> RatInt(0), sumsq |-> RatInt(0), min |-> NaN, max |-> NaN]
acc_add_min_is_last(acc, v) ==
    IF IsNaN(v) THEN acc
    ELSE [n |-> acc.n + 1,
          sum |-> RatAdd(acc.sum, v),
          sumsq |-> RatAdd(acc.sumsq, RatMul(v, v)),
          min |-> v,
          max |-> IF acc.n = 0 \/ RatLess(acc.max, v) THEN v ELSE acc.max]
acc_add(acc, v) ==
    IF IsNaN(v) THEN acc
    ELSE [n |-> acc.n + 1,
          sum |-> RatAdd(acc.sum, v),
          sumsq |-> RatAdd(acc.sumsq, RatMul(v, v)),
          min |-> IF acc.n = 0 \/ RatLess(v, acc.min) THEN v ELSE acc.min,
          max |-> IF acc.n = 0 \/ RatLess(acc.max, v) THEN v ELSE acc.max]

\* The sample variance (ddof = 1) behind 'std': undefined below two values.
variance_population(acc) ==
    IF acc.n < 1 THEN NaN
    ELSE RatDiv(RatSub(acc.sumsq, RatDiv(RatMul(acc.sum, acc.sum), RatInt(acc.n))),
                RatInt(acc.n))
variance(acc) ==
    IF acc.n < 2 THEN NaN
    ELSE RatDiv(RatSub(acc.sumsq, RatDiv(RatMul(acc.sum, acc.sum), RatInt(acc.n))),
                RatInt(acc.n - 1))

\* One statistic of a finished group.
reduce(acc, func) ==
    CASE func = "mean" -> IF acc.n = 0 THEN NaN ELSE RatDiv(acc.sum, RatInt(acc.n))
      [] func = "min" -> acc.min
      [] func = "max" -> acc.max
      [] func = "std" -> Sqrt(variance(acc))
      [] func = "sum" -> acc.sum

\* Position of a key among the groups found so far, 0 when it is new.
group_index(groups, key) ==
    IF \E j \in 1..Len(groups) : groups[j].key = key
    THEN CHOOSE j \in 1..Len(groups) : groups[j].key = key
    ELSE 0

\* The pass over the rows: each row joins the group of its key, or opens it.
\* The running reductions of a group, one per rule, with one more row.
RECURSIVE accs_add(_, _, _, _)
accs_add(accs, row, rules, k) ==
    IF k > Len(rules) THEN << >>
    ELSE <<acc_add(IF accs = << >> THEN EmptyAcc ELSE accs[k], row[rules[k].col])>>
         \o accs_add(accs, row, rules, k + 1)

RECURSIVE groupby_agg(_, _, _, _, _)
groupby_agg(rows, i, gc, rules, groups) ==
    IF i > Len(rows) THEN groups
    ELSE IF ~keeps_row(rows[i], gc) THEN groupby_agg(rows, i + 1, gc, rules, groups)
    ELSE LET key == row_key(rows[i], gc, 1)
             j == group_index(groups, key)
             new == [key |-> key,
                     accs |-> accs_add(IF j = 0 THEN << >> ELSE groups[j].accs,
                                       rows[i], rules, 1)]
         IN groupby_agg(rows, i + 1, gc, rules,
                        IF j = 0 THEN insert_group(groups, new, gc)
                        ELSE [groups EXCEPT ![j] = new])

\* Flattened column name: '_'.join((col, func)) when the result columns are
\* (col, func) pairs, which they are as soon as one rule lists its
\* statistics; the bare column name otherwise.
flat_name(rule, func, paired) == IF paired THEN rule.col \o "_" \o func ELSE rule.col
\* The statistic columns in the order of agg_dict, from statistic f of rule
\* k on.
RECURSIVE rule_stats(_, _, _, _)
rule_stats(rules, k, f, paired) ==
    IF k > Len(rules) THEN << >>
    ELSE IF f > Len(rules[k].funcs) THEN rule_stats(rules, k + 1, 1, paired)
    ELSE <<[name |-> flat_name(rules[k], rules[k].funcs[f], paired),
            rule |-> k, func |-> rules[k].funcs[f]]>>
         \o rule_stats(rules, k, f + 1, paired)
stat_list(rules) == rule_stats(rules, 1, 1, \E k \in 1..Len(rules) : rules[k].listed)
stat_columns(rules) ==
    LET stats == stat_list(rules) IN {stats[i] : i \in 1..Len(stats)}

\* One output row: the key under the grouping columns' names (reset_index),
\* each statistic under its flattened name.
RECURSIVE key_cells(_, _, _)
key_cells(key, gc, i) ==
    IF i > Len(gc) THEN << >> ELSE (gc[i] :> key[i]) @@ key_cells(key, gc, i + 1)
RECURSIVE stat_cells(_, _, _)
stat_cells(accs, stats, i) ==
    IF i > Len(stats) THEN << >>
    ELSE (stats[i].name :> reduce(accs[stats[i].rule], stats[i].func))
         @@ stat_cells(accs, stats, i + 1)
out_row(group, gc, stats) == key_cells(group.key, gc, 1) @@ stat_cells(group.accs, stats, 1)
RECURSIVE out_rows(_, _, _, _)
out_rows(groups, gc, stats, g) ==
    IF g > Len(groups) THEN << >>
    ELSE <<out_row(groups[g], gc, stats)>> \o out_rows(groups, gc, stats, g + 1)

NoAggregate == [status |-> "idle", error |-> "", table |-> << >>]

\* The whole call on the table df: the outcome and the caller's table after
\* it.  The last statement before the return divides by len(df).
_aggregate_data(df) ==
    LET decode == "latitude" \notin df.columns \/ "longitude" \notin df.columns
        latlon == latlon_data(df.rows, 1)
        df1 == IF decode THEN with_latlon(df, latlon) ELSE df
        rules == agg_dict(df1.columns)
        gc == group_cols(df1.columns)
        groups == groupby_agg(df1.rows, 1, gc, rules, << >>)
        table == out_rows(groups, gc, stat_list(rules), 1)
    IN IF decode /\ apply_raises(latlon)
       THEN [status |-> "raised", error |-> "ValueError", table |-> << >>, df |-> df]
       ELSE IF Len(df.rows) = 0
       THEN [status |-> "raised", error |-> "ZeroDivisionError", table |-> << >>,
             df |-> df1]
       ELSE [status |-> "returned", error |-> "", table |-> table, df |-> df1]

(***************************************************************************)
(* _create_excel_file                                                      *)
(*                                                                         *)
(* A written workbook is [path, sheets]; a sheet is its name and the range *)
(* start..end-1 of the rows of the table it holds.                         *)
(***************************************************************************)
excel_row_limit == 900000

\* num_chunks = (len(df) - 1) // max_rows + 1
num_chunks_truncating(n, max_rows) == (n \div max_rows) + 1
num_chunks(n, max_rows) == ((n - 1) \div max_rows) + 1
Min(a, b) == IF a < b THEN a ELSE b
chunk_sheet_name(sheet_name, chunk_idx, chunks) ==
    IF chunks > 1 THEN sheet_name \o "_" \o ToString(chunk_idx + 1) ELSE sheet_name
RECURSIVE chunk_sheets(_, _, _, _, _)
chunk_sheets(n, max_rows, sheet_name, chunk_idx, chunks) ==
    IF chunk_idx >= chunks THEN << >>
    ELSE <<[name |-> chunk_sheet_name(sheet_name, chunk_idx, chunks),
            start |-> chunk_idx * max_rows,
            end |-> Min((chunk_idx + 1) * max_rows, n)]>>
         \o chunk_sheets(n, max_rows, sheet_name, chunk_idx + 1, chunks)
\* The workbook the call writes; the call returns output_path.
_create_excel_file(rows, output_path, sheet_name, max_rows) ==
    [path |-> output_path,
     sheets |-> chunk_sheets(Len(rows), max_rows, sheet_name, 0,
                             num_chunks(Len(rows), max_rows))]

NoWorkbook == [path |-> "", sheets |-> << >>]
\* df.iloc[start_row:end_row]
iloc(rows, start_row, end_row) == SubSeq(rows, start_row + 1, end_row)
\* The sheet names the callers pass.
SheetNames == {"Data", "All Data", "Mobile", "Fixed", "Comparison"}
\* The largest table and the largest row limit a call is driven with.
MaxSheetRows == 8
MaxRowLimit == 4
\* A table of n rows, each row standing for itself.
rows_of(n) == [i \in 1..n |-> i]
NoSheetCall ==
    [status |-> "idle", rows |-> << >>, max_rows |-> excel_row_limit,
     sheet_name |-> "Data", written |-> NoWorkbook]

(***************************************************************************)
(* _create_comparison_file                                                 *)
(*                                                                         *)
(* The table df is the sequence of the bins; its columns are those of its  *)
(* rows.  Float arithmetic is exact here (rationals), with the infinities  *)
(* and NaN of a division by zero.                                          *)
(***************************************************************************)
\* == on a year or a quarter: a missing value equals nothing.
period_eq(a, b) == a # NaNInt /\ b # NaNInt /\ a = b

\* df.sort_values(by): the rows in ascending order of the columns by, rows
\* that tie in the order they had, a missing value last.  Row i is put after
\* every row already placed that is not greater.
insert_position_first(sorted, by, k) == 0
insert_position(sorted, by, k) ==
    Cardinality({j \in 1..Len(sorted) : ~key_less(by, k, row_key(sorted[j], by, 1), 1)})
RECURSIVE sort_values(_, _, _, _)
sort_values(rows, by, i, sorted) ==
    IF i > Len(rows) THEN sorted
    ELSE LET before == insert_position(sorted, by, row_key(rows[i], by, 1))
         IN sort_values(rows, by, i + 1,
                        SubSeq(sorted, 1, before) \o <<rows[i]>>
                        \o SubSeq(sorted, before + 1, Len(sorted)))

\* The columns that order the table when the baseline period is looked up.
baseline_order_quarter_first == <<"quarter", "year">>
baseline_order == <<"year", "quarter">>

\* df[(df['year'] == baseline_year) & (df['quarter'] == baseline_quarter)]
baseline_of_every_period(rows, baseline_year, baseline_quarter) == rows
baseline_of(rows, baseline_year, baseline_quarter) ==
    LET in_period(r) == /\ period_eq(r["year"], baseline_year)
                        /\ period_eq(r["quarter"], baseline_quarter)
    IN SelectSeq(rows, in_period)

\* baseline.groupby('quadkey').agg({col: 'mean'}): the mean of col over the
\* baseline rows of one quadkey, from row i on.
RECURSIVE column_acc(_, _, _, _, _)
column_acc(rows, qk, col, i, acc) ==
    IF i > Len(rows) THEN acc
    ELSE column_acc(rows, qk, col, i + 1,
                    IF rows[i]["quadkey"] = qk THEN acc_add(acc, rows[i][col]) ELSE acc)
\* The value the left merge gives a row of quadkey qk: missing when the
\* quadkey has no baseline row.
baseline_metric_of_all_quadkeys(baseline, qk, col) ==
    IF \E i \in 1..Len(baseline) : baseline[i]["quadkey"] = qk
    THEN reduce(column_acc(baseline, baseline[1]["quadkey"], col, 1,
                           column_acc(baseline, qk, col, 1, EmptyAcc)), "mean")
    ELSE NaN
baseline_metric(baseline, qk, col) ==
    IF \E i \in 1..Len(baseline) : baseline[i]["quadkey"] = qk
    THEN reduce(column_acc(baseline, qk, col, 1, EmptyAcc), "mean")
    ELSE NaN

\* (value - reference) / reference * 100
percent_change_of_difference(value, reference) ==
    RatMul(RatSub(value, reference), RatInt(100))
percent_change(value, reference) ==
    RatMul(RatDiv(RatSub(value, reference), reference), RatInt(100))

\* The row the left merge makes of row r, with the two percent changes from
\* the baseline.
merged_row(r, baseline) ==
    LET bd == baseline_metric(baseline, r["quadkey"], "avg_d_kbps_mean")
        bu == baseline_metric(baseline, r["quadkey"], "avg_u_kbps_mean")
    IN ("baseline_d_kbps" :> bd) @@ ("baseline_u_kbps" :> bu)
       @@ ("d_kbps_pct_change" :> percent_change(r["avg_d_kbps_mean"], bd))
       @@ ("u_kbps_pct_change" :> percent_change(r["avg_u_kbps_mean"], bu))
       @@ r

\* comparison = df.merge(baseline_metrics, on='quadkey', how='left'), and the
\* two percent changes from the baseline; rows from i on.
RECURSIVE merge_baseline_inner(_, _, _)
merge_baseline_inner(rows, baseline, i) ==
    IF i > Len(rows) THEN << >>
    ELSE (IF \E k \in 1..Len(baseline) : baseline[k]["quadkey"] = rows[i]["quadkey"]
          THEN <<merged_row(rows[i], baseline)>> ELSE << >>)
         \o merge_baseline_inner(rows, baseline, i + 1)
RECURSIVE merge_baseline(_, _, _)
merge_baseline(rows, baseline, i) ==
    IF i > Len(rows) THEN << >>
    ELSE <<merged_row(rows[i], baseline)>> \o merge_baseline(rows, baseline, i + 1)

\* comparison.groupby('quadkey')[...].shift(1): the row above row j among the
\* rows of the same quadkey, 0 when there is none.
shift_ignoring_quadkey(rows, j) == j - 1
shift(rows, j) ==
    LET above == {k \in 1..(j - 1) : rows[k]["quadkey"] = rows[j]["quadkey"]}
    IN IF above = {} THEN 0 ELSE CHOOSE k \in above : \A m \in above : m <= k

\* year + (quarter - 1) * 0.25
time_period(year, quarter) ==
    IF year = NaNInt \/ quarter = NaNInt THEN NaN
    ELSE RatAdd(RatInt(year), Rat(quarter - 1, 4))

\* (quarter == 1) & (prev_quarter == 4) & (year != prev_year)
is_year_transition(year, quarter, prev_year, prev_quarter) ==
    /\ period_eq(quarter, 1)
    /\ period_eq(prev_quarter, 4)
    /\ ~period_eq(year, prev_year)

\* The columns added after the sort, for the rows from j on: the previous
\* values, the quarter-over-quarter changes and the flag.
RECURSIVE with_previous(_, _)
with_previous(rows, j) ==
    IF j > Len(rows) THEN << >>
    ELSE LET r == rows[j]
             p == shift(rows, j)
             prev_d_kbps == IF p = 0 THEN NaN ELSE rows[p]["avg_d_kbps_mean"]
             prev_u_kbps == IF p = 0 THEN NaN ELSE rows[p]["avg_u_kbps_mean"]
             prev_year == IF p = 0 THEN NaNInt ELSE rows[p]["year"]
             prev_quarter == IF p = 0 THEN NaNInt ELSE rows[p]["quarter"]
         IN <<("time_period" :> time_period(r["year"], r["quarter"]))
              @@ ("prev_d_kbps" :> prev_d_kbps) @@ ("prev_u_kbps" :> prev_u_kbps)
              @@ ("prev_year" :> prev_year) @@ ("prev_quarter" :> prev_quarter)
              @@ ("d_kbps_qoq_change" :> percent_change(r["avg_d_kbps_mean"], prev_d_kbps))
              @@ ("u_kbps_qoq_change" :> percent_change(r["avg_u_kbps_mean"], prev_u_kbps))
              @@ ("is_year_transition" :>
                     is_year_transition(r["year"], r["quarter"], prev_year, prev_quarter))
              @@ r>>
            \o with_previous(rows, j + 1)

\* comparison.drop(columns=[...]) and the two cumulative columns.
TemporaryColumns == {"prev_d_kbps", "prev_u_kbps", "prev_year", "prev_quarter"}
RECURSIVE finished(_, _)
finished(rows, j) ==
    IF j > Len(rows) THEN << >>
    ELSE LET r == rows[j]
         IN <<("d_kbps_cumulative_change" :> r["d_kbps_pct_change"])
              @@ ("u_kbps_cumulative_change" :> r["u_kbps_pct_change"])
              @@ [c \in (DOMAIN r) \ TemporaryColumns |-> r[c]]>>
            \o finished(rows, j + 1)

NoComparison ==
    [status |-> "idle", error |-> "", baseline_year |-> NaNInt,
     baseline_quarter |-> NaNInt, baseline |-> << >>, previous |-> << >>,
     table |-> << >>, written |-> NoWorkbook]

\* The whole call on the bins df: "returned" with output_path, "none" when it
\* returns None after the warning, or "raised"; with its locals (the
\* baseline rows, the table before the temporary columns are dropped).
_create_comparison_file(df, output_path) ==
    LET df_sorted == sort_values(df, baseline_order, 1, << >>)
        baseline_year == df_sorted[1]["year"]
        baseline_quarter == df_sorted[1]["quarter"]
        baseline == baseline_of(df, baseline_year, baseline_quarter)
        merged == merge_baseline(df, baseline, 1)
        sorted == sort_values(merged, <<"quadkey", "year", "quarter">>, 1, << >>)
        previous == with_previous(sorted, 1)
        table == finished(previous, 1)
    IN IF Len(df) = 0
       THEN [NoComparison EXCEPT !.status = "raised", !.error = "IndexError"]
       ELSE IF Len(baseline) = 0
       THEN [NoComparison EXCEPT !.status = "none",
                                 !.baseline_year = baseline_year,
                                 !.baseline_quarter = baseline_quarter]
       ELSE IF ~({"avg_d_kbps_mean", "avg_u_kbps_mean"} \subseteq DOMAIN df[1])
       THEN [NoComparison EXCEPT !.status = "raised", !.error = "KeyError",
                                 !.baseline_year = baseline_year,
                                 !.baseline_quarter = baseline_quarter,
                                 !.baseline = baseline]
       ELSE [status |-> "returned", error |-> "",
             baseline_year |-> baseline_year, baseline_quarter |-> baseline_quarter,
             baseline |-> baseline, previous |-> previous, table |-> table,
             written |-> _create_excel_file(table, output_path, "Comparison",
                                            excel_row_limit)]

(***************************************************************************)
(* _export_to_excel                                                        *)
(***************************************************************************)
\* output_name as _prepare_combined builds it for a table without a region
\* column, the date left out.
output_name == "ookla_tableau"
None == "None"

\* df[df['data_type'] == data_type]
of_data_type(rows, data_type) ==
    LET is_type(r) == r["data_type"] = data_type
    IN SelectSeq(rows, is_type)
\* df.groupby(['year', 'quarter']).size(): the periods of the table, a row
\* with a missing year or quarter left out.
time_periods(rows) ==
    {<<rows[i]["year"], rows[i]["quarter"]>> :
        i \in {k \in 1..Len(rows) : rows[k]["year"] # NaNInt /\ rows[k]["quarter"] # NaNInt}}

NoExport ==
    [status |-> "idle", error |-> "", output_files |-> << >>, written |-> << >>]

\* The whole call: output_files as a sequence of (file type, path) in the
\* order the entries are made, the workbooks written, and the comparison.
\* The loop that prints the sizes calls file_path.stat() on every entry.
_export_to_excel(df, columns, name) ==
    LET path(kind) == name \o "_" \o kind \o ".xlsx"
        mobile_data == IF "data_type" \in columns THEN of_data_type(df, "mobile") ELSE << >>
        fixed_data == IF "data_type" \in columns THEN of_data_type(df, "fixed") ELSE << >>
        compares == /\ "year" \in columns /\ "quarter" \in columns
                    /\ Cardinality(time_periods(df)) > 1
        cmp == IF compares THEN _create_comparison_file(df, path("comparison"))
               ELSE NoComparison
        files == <<[type |-> "combined", path |-> path("combined")]>>
                 \o (IF Len(mobile_data) > 0
                     THEN <<[type |-> "mobile", path |-> path("mobile")]>> ELSE << >>)
                 \o (IF Len(fixed_data) > 0
                     THEN <<[type |-> "fixed", path |-> path("fixed")]>> ELSE << >>)
        written == <<_create_excel_file(df, path("combined"), "All Data", excel_row_limit)>>
                   \o (IF Len(mobile_data) > 0
                       THEN <<_create_excel_file(mobile_data, path("mobile"), "Mobile",
                                                 excel_row_limit)>> ELSE << >>)
                   \o (IF Len(fixed_data) > 0
                       THEN <<_create_excel_file(fixed_data, path("fixed"), "Fixed",
                                                 excel_row_limit)>> ELSE << >>)
    IN CASE cmp.status = "raised" ->
              [export |-> [status |-> "raised", error |-> cmp.error,
                           output_files |-> files, written |-> written],
               comparison |-> cmp]
         [] cmp.status = "none" ->
              [export |-> [status |-> "raised", error |-> "AttributeError",
                           output_files |-> files \o <<[type |-> "comparison", path |-> None]>>,
                           written |-> written],
               comparison |-> cmp]
         [] cmp.status = "returned" ->
              [export |-> [status |-> "returned", error |-> "",
                           output_files |-> files \o <<[type |-> "comparison",
                                                        path |-> path("comparison")]>>,
                           written |-> written \o <<cmp.written>>],
               comparison |-> cmp]
         [] OTHER ->
              [export |-> [status |-> "returned", error |-> "",
                           output_files |-> files, written |-> written],
               comparison |-> cmp]

(***************************************************************************)
(* IBTracsExtractor                                                        *)
(*                                                                         *)
(* The database file on disk is [state, columns, rows]: "absent",           *)
(* "unparsable" (pd.read_csv raises on it) or the "table" pd.read_csv      *)
(* makes of it.  The                                                       *)
(* configured cyclone is [name, year, days, peak]: the formation date is   *)
(* day 0, the dissipation date day `days`, the peak date day `peak`; times *)
(* are in hours from the formation date.                                   *)
(***************************************************************************)
\* str.upper() on the names of the configurations and the database.
Upper(name) ==
    CASE name = "Seroja" -> "SEROJA"
      [] name = "Odette" -> "ODETTE"
      [] OTHER -> name

\* _categorize_intensity(wind_kts)
_categorize_intensity(wind_kts) ==
    IF IsNaN(wind_kts) THEN "Unknown"
    ELSE IF RatLess(wind_kts, RatInt(34)) THEN "Tropical Depression"
    ELSE IF RatLess(wind_kts, RatInt(64)) THEN "Tropical Storm"
    ELSE IF RatLess(wind_kts, RatInt(83)) THEN "Category 1"
    ELSE IF RatLess(wind_kts, RatInt(96)) THEN "Category 2"
    ELSE IF RatLess(wind_kts, RatInt(113)) THEN "Category 3"
    ELSE IF RatLess(wind_kts, RatInt(137)) THEN "Category 4"
    ELSE "Category 5"

\* The columns the extractor adds to every track.
track_metadata(row, cyclone) ==
    ("intensity_category" :> _categorize_intensity(row["WMO_WIND"]))
    @@ ("cyclone_name" :> cyclone.name) @@ ("cyclone_year" :> cyclone.year)
    @@ ("analysis_id" :> cyclone.cyclone_id)
    @@ row

\* The rows of the database for the configured cyclone: its name in upper
\* case and its season the configured year or the next.
matches(row, cyclone) ==
    /\ Upper(row["NAME"]) = Upper(cyclone.name)
    /\ (row["SEASON"] = cyclone.year \/ row["SEASON"] = cyclone.year + 1)
filter_track(rows, cyclone) ==
    LET is_cyclone(row) == matches(row, cyclone)
    IN SelectSeq(rows, is_cyclone)

\* _process_track_data(track): the metadata, then sorted by ISO_TIME.
RECURSIVE with_metadata(_, _, _)
with_metadata(rows, cyclone, i) ==
    IF i > Len(rows) THEN << >>
    ELSE <<track_metadata(rows[i], cyclone)>> \o with_metadata(rows, cyclone, i + 1)
_process_track_data(track, cyclone) ==
    sort_values(with_metadata(track, cyclone, 1), <<"ISO_TIME">>, 1, << >>)

\* times = [formation + timedelta(hours=h) for h in range(0, hours, 6)]
max_wind_kts == 50
synthetic_times(cyclone) == (cyclone.days * 24 + 5) \div 6
\* The i-th point (from 0) of the n points of the synthetic track.
synthetic_point(cyclone, i, n) ==
    LET progress == Rat(i, n)
        time == 6 * i
        span == RatInt(max_wind_kts - 25)
        wind == IF time < cyclone.peak * 24
                THEN RatAdd(RatInt(25), RatMul(span, Rat(2 * i, n)))
                ELSE RatSub(RatInt(max_wind_kts), RatMul(span, Rat(2 * i - n, n)))
    IN ("ISO_TIME" :> time)
       @@ ("LAT" :> RatSub(RatInt(-10), RatMul(progress, RatInt(2))))
       @@ ("LON" :> RatAdd(RatInt(100), RatMul(progress, RatInt(5))))
       @@ ("WMO_WIND" :> wind)
       @@ ("WMO_PRES" :> RatSub(RatInt(1010), RatDiv(wind, RatInt(2))))
       @@ ("NAME" :> cyclone.name) @@ ("SEASON" :> cyclone.year)
       @@ ("BASIN" :> cyclone.basin)
RECURSIVE synthetic_rows(_, _, _)
synthetic_rows(cyclone, i, n) ==
    IF i >= n THEN << >>
    ELSE <<("data_source" :> "synthetic")
           @@ track_metadata(synthetic_point(cyclone, i, n), cyclone)>>
         \o synthetic_rows(cyclone, i + 1, n)

AbsentFile == [state |-> "absent", columns |-> {}, rows |-> << >>]
UnparsableFile == [state |-> "unparsable", columns |-> {}, rows |-> << >>]
NoTrack ==
    [status |-> "idle", error |-> "", source |-> "", track |-> << >>,
     download |-> ""]
\* The columns _process_track_data reads.
ProcessedColumns == {"ISO_TIME", "LAT", "LON", "WMO_WIND", "WMO_PRES"}

\* _create_synthetic_track(): with no point, track_data is empty, the
\* DataFrame made of it has no column and track['WMO_WIND'] raises KeyError.
_create_synthetic_track(cyclone) ==
    IF synthetic_times(cyclone) <= 0
    THEN [status |-> "raised", error |-> "KeyError", source |-> "synthetic",
          track |-> << >>]
    ELSE [status |-> "returned", error |-> "", source |-> "synthetic",
          track |-> synthetic_rows(cyclone, 0, synthetic_times(cyclone))]

\* download_ibtracs_database(): what it returns and the file it leaves,
\* given the file on disk and what the request does: "refused" (the request
\* or its status raises), "interrupted" (the stream raises after the file
\* was opened for writing, partial is what was written) or "complete".
download_ibtracs_database(file, request, remote, partial) ==
    IF file # AbsentFile THEN [returns |-> "ibtracs_file", file |-> file]
    ELSE CASE request = "refused" -> [returns |-> None, file |-> AbsentFile]
           [] request = "interrupted" -> [returns |-> None, file |-> partial]
           [] OTHER -> [returns |-> "ibtracs_file", file |-> remote]

\* extract_track() from the point where the database file is known.
extract_from_file(file, cyclone) ==
    IF file = UnparsableFile THEN _create_synthetic_track(cyclone)
    ELSE IF ~({"NAME", "SEASON"} \subseteq file.columns)
    THEN [status |-> "raised", error |-> "KeyError", source |-> "archive",
          track |-> << >>]
    ELSE IF Len(filter_track(file.rows, cyclone)) = 0
    THEN _create_synthetic_track(cyclone)
    ELSE IF ~(ProcessedColumns \subseteq file.columns)
    THEN [status |-> "raised", error |-> "KeyError", source |-> "archive",
          track |-> << >>]
    ELSE [status |-> "returned", error |-> "", source |-> "archive",
          track |-> _process_track_data(filter_track(file.rows, cyclone), cyclone)]

\* extract_track(): the outcome, the database file it leaves and what the
\* download did ("exists" when the file was there).
extract_track(file, cyclone, request, remote, partial) ==
    LET downloaded == download_ibtracs_database(file, request, remote, partial)
    IN [file |-> downloaded.file,
        download |-> IF file # AbsentFile THEN "exists" ELSE request,
        outcome |-> IF downloaded.returns = None THEN _create_synthetic_track(cyclone)
                    ELSE extract_from_file(downloaded.file, cyclone)]

\* Inputs.  A row of the database is (NAME, SEASON, ISO_TIME, WMO_WIND).
DatabaseChoices ==
    { <<"SEROJA", 2021, 6, RatInt(70)>>,
      <<"SEROJA", 2021, 0, NaN>>,
      <<"SEROJA", 2022, 0, RatInt(30)>>,
      <<"SEROJA", 2020, 0, RatInt(30)>>,
      <<"ODETTE", 2021, 0, RatInt(100)>> }
DatabaseRow(choice) ==
    ("NAME" :> choice[1]) @@ ("SEASON" :> choice[2]) @@ ("ISO_TIME" :> choice[3])
    @@ ("WMO_WIND" :> choice[4]) @@ ("LAT" :> RatInt(-10)) @@ ("LON" :> RatInt(120))
    @@ ("WMO_PRES" :> NaN)
DatabaseColumns == {"NAME", "SEASON", "ISO_TIME", "WMO_WIND", "LAT", "LON", "WMO_PRES"}
MaxTrackRows == 2
\* The database tables: of up to MaxTrackRows rows.
Databases ==
    UNION {{[state |-> "table", columns |-> DatabaseColumns,
             rows |-> [i \in 1..n |-> DatabaseRow(choices[i])]] :
              choices \in [1..n -> DatabaseChoices]} : n \in 0..MaxTrackRows}
\* A file that parses as CSV and is not the database: a page served in its
\* place, of one column.
OtherPage ==
    [state |-> "table", columns |-> {"<!DOCTYPE html>"},
     rows |-> <<("<!DOCTYPE html>" :> "<html>")>>]
FileContents == Databases \cup {OtherPage}
\* What an interrupted download of remote has written: nothing that parses,
\* or the first rows.
PartialFiles(remote) ==
    {UnparsableFile} \cup {[remote EXCEPT !.rows = SubSeq(remote.rows, 1, k)] :
                             k \in 0..(Len(remote.rows) - 1)}
MaxDays == 2
Cyclones ==
    {[name |-> "Seroja", year |-> 2021, basin |-> "SI", cyclone_id |-> "seroja_2021",
      days |-> d, peak |-> k] : d \in 0..MaxDays, k \in 0..MaxDays}
NoCyclone ==
    [name |-> "", year |-> 0, basin |-> "", cyclone_id |-> "", days |-> 0, peak |-> 0]
Requests == {"refused", "interrupted", "complete"}
MaxCalls == 2


(***************************************************************************)
(* NaturalEarthLoader                                                      *)
(*                                                                         *)
(* A GeoDataFrame is [is_none, rows]: None, or the set of its rows.  The   *)
(* loader is the record of its attributes; a call gives the loader after   *)
(* it and its outcome [status, error, result].                             *)
(***************************************************************************)
NoneFrame == [is_none |-> TRUE, rows |-> {}]
Frame(rows) == [is_none |-> FALSE, rows |-> rows]

\* The two shapefiles as gpd.read_file reads them: the countries by NAME,
\* the provinces by admin (their country) and name.
CountriesShapefile == {[NAME |-> "Indonesia"], [NAME |-> "Brazil"], [NAME |-> "Monaco"]}
\* The geometry of a province is the stretch west..east of a line.
ProvincesShapefile ==
    {[admin |-> "Indonesia", name |-> "Aceh", west |-> 0, east |-> 1],
     [admin |-> "Indonesia", name |-> "Bali", west |-> 4, east |-> 5],
     [admin |-> "Brazil", name |-> "Acre", west |-> 8, east |-> 9]}

\* NaturalEarthLoader.__init__
NewLoader ==
    [_countries |-> NoneFrame, _provinces |-> NoneFrame, current_country |-> None,
     current_country_geometry |-> NoneFrame, current_provinces |-> NoneFrame]

Outcome(status, error, result) == [status |-> status, error |-> error, result |-> result]
NoOutcome == Outcome("idle", "", NoneFrame)
CountryNotFound == "ValueError: Country not found"
NoProvincesFound == "ValueError: No provinces found for country"
NoContext == "ValueError: No country context set"
ShapefileNotFound == "FileNotFoundError"

\* The property countries: loaded on first use; found tells whether the
\* shapefile exists.
countries(loader, found) ==
    IF ~loader._countries.is_none THEN [raised |-> FALSE, loader |-> loader]
    ELSE IF ~found THEN [raised |-> TRUE, loader |-> loader]
    ELSE [raised |-> FALSE,
          loader |-> [loader EXCEPT !._countries = Frame(CountriesShapefile)]]
\* The property provinces.
provinces(loader, found) ==
    IF ~loader._provinces.is_none THEN [raised |-> FALSE, loader |-> loader]
    ELSE IF ~found THEN [raised |-> TRUE, loader |-> loader]
    ELSE [raised |-> FALSE,
          loader |-> [loader EXCEPT !._provinces = Frame(ProvincesShapefile)]]

\* self.countries[self.countries['NAME'] == country_name]
country_rows(loader, country_name) ==
    {c \in loader._countries.rows : c.NAME = country_name}
\* self.provinces[self.provinces['admin'] == country_name]
province_rows(loader, country_name) ==
    {q \in loader._provinces.rows : q.admin = country_name}

\* set_country(country_name), shapefiles telling which shapefiles exist.
\* The geometry is assigned before it is looked at.
set_country(loader, shapefiles, country_name) ==
    LET c == countries(loader, shapefiles.countries)
        geometry == Frame(country_rows(c.loader, country_name))
        assigned == [c.loader EXCEPT !.current_country_geometry = geometry]
        named == [assigned EXCEPT !.current_country = country_name]
        q == provinces(named, shapefiles.provinces)
    IN IF c.raised
       THEN [loader |-> c.loader, outcome |-> Outcome("raised", ShapefileNotFound, NoneFrame)]
       ELSE IF geometry.rows = {}
       THEN [loader |-> assigned, outcome |-> Outcome("raised", CountryNotFound, NoneFrame)]
       ELSE IF q.raised
       THEN [loader |-> q.loader, outcome |-> Outcome("raised", ShapefileNotFound, NoneFrame)]
       ELSE [loader |-> [q.loader EXCEPT !.current_provinces =
                                            Frame(province_rows(q.loader, country_name))],
             outcome |-> Outcome("returned", "", NoneFrame)]

\* get_country(country_name), country_name None for the current country.
get_country_setting_context(loader, shapefiles, country_name) ==
    IF country_name = None
    THEN [loader |-> loader,
          outcome |-> IF loader.current_country_geometry.is_none
                      THEN Outcome("raised", NoContext, NoneFrame)
                      ELSE Outcome("returned", "", loader.current_country_geometry)]
    ELSE LET r == set_country(loader, shapefiles, country_name)
         IN [loader |-> r.loader,
             outcome |-> IF r.outcome.status = "raised" THEN r.outcome
                         ELSE Outcome("returned", "", r.loader.current_country_geometry)]
get_country(loader, shapefiles, country_name) ==
    LET c == countries(loader, shapefiles.countries)
        result == Frame(country_rows(c.loader, country_name))
    IN IF country_name = None
       THEN [loader |-> loader,
             outcome |-> IF loader.current_country_geometry.is_none
                         THEN Outcome("raised", NoContext, NoneFrame)
                         ELSE Outcome("returned", "", loader.current_country_geometry)]
       ELSE IF c.raised
       THEN [loader |-> c.loader, outcome |-> Outcome("raised", ShapefileNotFound, NoneFrame)]
       ELSE IF result.rows = {}
       THEN [loader |-> c.loader, outcome |-> Outcome("raised", CountryNotFound, NoneFrame)]
       ELSE [loader |-> c.loader, outcome |-> Outcome("returned", "", result)]

\* get_provinces(country_name), country_name None for the current country.
get_provinces(loader, shapefiles, country_name) ==
    LET q == provinces(loader, shapefiles.provinces)
        result == Frame(province_rows(q.loader, country_name))
    IN IF country_name = None
       THEN [loader |-> loader,
             outcome |-> IF loader.current_provinces.is_none
                         THEN Outcome("raised", NoContext, NoneFrame)
                         ELSE Outcome("returned", "", loader.current_provinces)]
       ELSE IF q.raised
       THEN [loader |-> q.loader, outcome |-> Outcome("raised", ShapefileNotFound, NoneFrame)]
       ELSE IF result.rows = {}
       THEN [loader |-> q.loader, outcome |-> Outcome("raised", NoProvincesFound, NoneFrame)]
       ELSE [loader |-> q.loader, outcome |-> Outcome("returned", "", result)]

\* The arguments the loader is called with: the countries of the shapefile
\* and one that is not in it; province names, one of them not in it.
CountryArguments == {"Indonesia", "Brazil", "Monaco", "Atlantis"}
ProvinceArguments == {{"Aceh"}, {"Aceh", "Riau"}}
MaxLoaderCalls == 3
NoCall == [op |-> "", country_name |-> None] @@ NoOutcome
LoaderCalled(op, country_name, outcome) ==
    [op |-> op, country_name |-> country_name] @@ outcome

\* get_provinces_by_name(province_names): the loader is left as it is.
get_provinces_by_name(loader, province_names) ==
    IF loader.current_provinces.is_none
    THEN Outcome("raised", NoContext, NoneFrame)
    ELSE Outcome("returned", "",
                 Frame({q \in loader.current_provinces.rows : q.name \in province_names}))

(***************************************************************************)
(* OoklaDownloader                                                         *)
(*                                                                         *)
(* region_info is [is_none, name, country, provinces]; the downloader is   *)
(* [region_info, boundaries, geo_loader].                                  *)
(***************************************************************************)
NoRegion == [is_none |-> TRUE, name |-> "", country |-> "", provinces |-> {}]
Region(name, country, province_names) ==
    [is_none |-> FALSE, name |-> name, country |-> country, provinces |-> province_names]

\* config.REGION_PRESETS, two of its entries with two of their provinces.
REGION_PRESETS ==
    ("indonesia_sumatra" :> Region("Sumatra Region", "Indonesia", {"Aceh", "Riau"}))
    @@ ("indonesia_bali_nusa_tenggara" :>
           Region("Bali and Nusa Tenggara Region", "Indonesia", {"Bali"}))

\* OoklaDownloader.__init__
NewDownloader == [region_info |-> NoRegion, boundaries |-> NoneFrame, geo_loader |-> NewLoader]

RegionNotFound == "ValueError: Region not found"
MustProvide == "ValueError: Must provide either region_key OR (country + provinces)"
RegionNotSet == "ValueError: Region not set"

\* set_region(region_key, country, provinces): an argument left out is None
\* (the empty set for provinces).  region_info is assigned before the
\* boundaries are loaded.
set_region(downloader, shapefiles, region_key, country, province_names) ==
    LET info == IF region_key # None THEN REGION_PRESETS[region_key]
                ELSE Region(country \o " Custom Region", country, province_names)
        informed == [downloader EXCEPT !.region_info = info]
        c == set_country(downloader.geo_loader, shapefiles, info.country)
        b == get_provinces_by_name(c.loader, info.provinces)
    IN IF region_key # None /\ region_key \notin DOMAIN REGION_PRESETS
       THEN [downloader |-> downloader, outcome |-> Outcome("raised", RegionNotFound, NoneFrame)]
       ELSE IF region_key = None /\ (country = None \/ province_names = {})
       THEN [downloader |-> downloader, outcome |-> Outcome("raised", MustProvide, NoneFrame)]
       ELSE IF c.outcome.status = "raised"
       THEN [downloader |-> [informed EXCEPT !.geo_loader = c.loader], outcome |-> c.outcome]
       ELSE [downloader |-> [informed EXCEPT !.geo_loader = c.loader,
                                             !.boundaries = b.result],
             outcome |-> Outcome("returned", "", NoneFrame)]

\* config.OOKLA_CONFIG
available_years == 2019..2025
available_quarters == {1, 2, 3, 4}
data_types == {"mobile", "fixed"}

\* validate_year_quarter(year, quarter): TRUE when it raises.
validate_year_quarter_only_year(year, quarter) == year \notin available_years
validate_year_quarter(year, quarter) ==
    year \notin available_years \/ quarter \notin available_quarters

\* gdf.cx[min_x:max_x, ...] on boundaries.total_bounds: the tiles within
\* the bounding box of the boundaries, none when there is no boundary.
bounding_box(tiles, boundaries) ==
    {t \in tiles : /\ \E q \in boundaries.rows : q.west <= t.x
                   /\ \E q \in boundaries.rows : t.x <= q.east}
\* gpd.sjoin(gdf_bbox, boundaries[['geometry', 'name']], how='inner',
\* predicate='intersects'): a row for every tile and boundary that meet.
sjoin(tiles, boundaries) ==
    UNION {{("name" :> q.name) @@ t :
               q \in {q \in boundaries.rows : q.west <= t.x /\ t.x <= q.east}} :
             t \in tiles}

\* The columns and metadata of a row of the result.
result_row(row, year, quarter, data_type, region_info) ==
    ("quadkey" :> row["quadkey"]) @@ ("avg_d_kbps" :> row["avg_d_kbps"])
    @@ ("name" :> row["name"]) @@ ("year" :> year) @@ ("quarter" :> quarter)
    @@ ("data_type" :> data_type) @@ ("region" :> region_info.name)
    @@ ("country" :> region_info.country)
    @@ ("avg_d_mbps" :> RatDiv(row["avg_d_kbps"], RatInt(1000)))

NoDownload ==
    [status |-> "idle", error |-> "", is_none |-> TRUE, rows |-> {}, read |-> FALSE]
NoOperation ==
    [op |-> "", region_key |-> None, country |-> None, provinces |-> {},
     year |-> 0, quarter |-> 0, data_type |-> ""] @@ NoDownload

\* download(year, quarter, data_type): remote is what pd.read_parquet does
\* ([fails, tiles]) and saved whether to_parquet succeeds.  The outcome is
\* the GeoDataFrame returned (is_none for None) and whether the remote read
\* was attempted; the downloader is left as it is.
download(downloader, year, quarter, data_type, remote, saved) ==
    LET raised(error) == [NoDownload EXCEPT !.status = "raised", !.error = error]
        none == [NoDownload EXCEPT !.status = "returned", !.read = TRUE]
        gdf_bbox == bounding_box(remote.tiles, downloader.boundaries)
        gdf_filtered == sjoin(gdf_bbox, downloader.boundaries)
    IN IF downloader.region_info.is_none THEN raised(RegionNotSet)
       ELSE IF validate_year_quarter(year, quarter) THEN raised("ValueError")
       ELSE IF data_type \notin data_types THEN raised("ValueError")
       ELSE IF remote.fails \/ downloader.boundaries.is_none THEN none
       ELSE IF gdf_bbox = {} \/ gdf_filtered = {} \/ ~saved THEN none
       ELSE [none EXCEPT !.is_none = FALSE,
                         !.rows = {result_row(row, year, quarter, data_type,
                                              downloader.region_info) :
                                     row \in gdf_filtered}]

\* The arguments set_region is called with: a preset key (one of them
\* unknown), or a country (one of them unknown) and province names, or
\* neither.
RegionArguments ==
    {<<region_key, None, {}>> :
        region_key \in {"indonesia_sumatra", "indonesia_bali_nusa_tenggara", "atlantis"}}
    \cup {<<None, country, province_names>> :
             country \in {None, "Brazil", "Atlantis"}, province_names \in {{}, {"Acre"}}}
\* The tiles of the remote file: a tile is its quadkey, the place x of its
\* geometry and its download speed.
Tile(q, x, kbps) == [quadkey |-> q, x |-> x, avg_d_kbps |-> RatInt(kbps)]
Remotes ==
    {[fails |-> TRUE, tiles |-> {}]}
    \cup {[fails |-> FALSE, tiles |-> tiles] :
             tiles \in {{}, {Tile("0", 0, 5000)}, {Tile("1", 3, 1500), Tile("2", 4, 2500)},
                        {Tile("0", 0, 5000), Tile("3", 8, 500)}}}
Years == {2018, 2024}
Quarters == {0, 4}
DataTypes == {"mobile", "broadband"}
MaxRegionCalls == 3
RegionSet(region_key, country, province_names, outcome) ==
    [NoOperation EXCEPT !.op = "set_region", !.region_key = region_key,
                        !.country = country, !.provinces = province_names,
                        !.status = outcome.status, !.error = outcome.error]
Downloaded(year, quarter, data_type, result) ==
    [op |-> "download", region_key |-> None, country |-> None, provinces |-> {},
     year |-> year, quarter |-> quarter, data_type |-> data_type] @@ result

(***************************************************************************)
(* prepare_tableau_data and prepare_from_files                             *)
(*                                                                         *)
(* An input file is what decides the mode and the names: its stem, whether *)
(* it exists, the region of its rows (None without a region column), its   *)
(* data type and period (None and 0 without the columns) and whether       *)
(* _aggregate_data returns on its rows.  The tables themselves are those   *)
(* of _aggregate_data and _export_to_excel above.                          *)
(***************************************************************************)
InputFile(stem, exists, region, data_type, period, aggregates) ==
    [stem |-> stem, exists |-> exists, region |-> region, data_type |-> data_type,
     period |-> period, aggregates |-> aggregates]
\* combined['region'].iloc[0].lower().replace(' ', '_') on the region names
\* of the input files.
region_slug(region) ==
    CASE region = "Sumatra Region" -> "sumatra_region"
      [] region = "Bali and Nusa Tenggara Region" -> "bali_and_nusa_tenggara_region"
NoPreparation ==
    [status |-> "idle", error |-> "", mode |-> "", output_files |-> {}, written |-> {}]
Entry(key, path) == [key |-> key, path |-> path]

\* _prepare_single_file on each of the files in turn; the files written
\* before one fails stay written.
RECURSIVE _prepare_single_files(_, _, _)
_prepare_single_files(files, i, done) ==
    IF i > Len(files)
    THEN [NoPreparation EXCEPT !.status = "returned", !.mode = "individual",
                               !.output_files = done,
                               !.written = {e.path : e \in done}]
    ELSE IF ~files[i].aggregates
    THEN [NoPreparation EXCEPT !.status = "raised", !.error = "aggregation",
                               !.mode = "individual",
                               !.written = {e.path : e \in done}]
    ELSE _prepare_single_files(files, i + 1,
             {e \in done : e.key # files[i].stem}
             \cup {Entry(files[i].stem, files[i].stem \o ".xlsx")})

\* _prepare_combined: one table of all the files, named after the region of
\* its first row and the day.
_prepare_combined(files, timestamp) ==
    LET with_region == \E i \in 1..Len(files) : files[i].region # None
        name == IF with_region
                THEN region_slug(files[1].region) \o "_tableau_" \o timestamp
                ELSE "ookla_tableau_" \o timestamp
        path(kind) == name \o "_" \o kind \o ".xlsx"
        has(data_type) == \E i \in 1..Len(files) : files[i].data_type = data_type
        periods == {files[i].period : i \in 1..Len(files)} \ {0}
        entries == {Entry("combined", path("combined"))}
                   \cup (IF has("mobile") THEN {Entry("mobile", path("mobile"))} ELSE {})
                   \cup (IF has("fixed") THEN {Entry("fixed", path("fixed"))} ELSE {})
                   \cup (IF Cardinality(periods) > 1
                         THEN {Entry("comparison", path("comparison"))} ELSE {})
    IN IF \E i \in 1..Len(files) : ~files[i].aggregates
       THEN [NoPreparation EXCEPT !.status = "raised", !.error = "aggregation",
                                  !.mode = "combine"]
       ELSE IF with_region /\ files[1].region = None
       THEN [NoPreparation EXCEPT !.status = "raised", !.error = "AttributeError",
                                  !.mode = "combine"]
       ELSE [NoPreparation EXCEPT !.status = "returned", !.mode = "combine",
                                  !.output_files = entries,
                                  !.written = {e.path : e \in entries}]

\* if combine: with the values prepare_tableau_data passes, None or a string.
truthy(value) == value # None /\ value # ""

\* prepare_from_files(file_paths, combine)
prepare_from_files(file_paths, combine, timestamp) ==
    LET normalized_paths == SelectSeq(file_paths, LAMBDA f : f.exists)
    IN IF normalized_paths = << >>
       THEN [NoPreparation EXCEPT !.status = "raised",
                                  !.error = "ValueError: No valid data files found!"]
       ELSE IF truthy(combine) THEN _prepare_combined(normalized_paths, timestamp)
       ELSE _prepare_single_files(normalized_paths, 1, {})

\* prepare_tableau_data(file_paths, output_name): the second argument is
\* passed on in the place of combine.
prepare_tableau_data(file_paths, given_name, timestamp) ==
    prepare_from_files(file_paths, given_name, timestamp)

\* The calls: up to MaxFiles of these files, with and without a name.
InputFiles ==
    {InputFile("sumatra_2024_Q3_mobile", TRUE, "Sumatra Region", "mobile", 1, TRUE),
     InputFile("sumatra_2024_Q4_fixed", TRUE, "Sumatra Region", "fixed", 2, TRUE),
     InputFile("tiles", TRUE, None, None, 0, TRUE),
     InputFile("empty", TRUE, "Sumatra Region", "mobile", 1, FALSE),
     InputFile("missing", FALSE, None, None, 0, FALSE)}
MaxFiles == 2
FilePaths == UNION {[1..n -> InputFiles] : n \in 1..MaxFiles}
GivenNames == {None, "", "sumatra_analysis"}
Timestamps == {"20240930"}
MaxPreparations == 2
NoPrepared ==
    [file_paths |-> << >>, given_name |-> None, calls |-> 0] @@ NoPreparation

(***************************************************************************)
(* download_natural_earth                                                  *)
(*                                                                         *)
(* The directory natural_earth is the set of the shapefiles under it.  A   *)
(* call is given whether each download method succeeds, how the extraction *)
(* ends and the shapefiles it writes.                                      *)
(***************************************************************************)
required_files ==
    {"10m_cultural/ne_10m_admin_0_countries.shp",
     "10m_cultural/ne_10m_admin_1_states_provinces.shp",
     "10m_physical/ne_10m_coastline.shp"}
\* A shapefile of the package that is not one of the required files.
OtherShapefiles == {"110m_physical/ne_110m_land.shp"}
Shapefiles == required_files \cup OtherShapefiles
Methods == <<"curl", "wget", "urllib">>
\* The methods tried: each one when all before it failed.
RECURSIVE tried(_, _)
tried(succeeds, i) ==
    IF i > Len(Methods) THEN << >>
    ELSE IF succeeds[Methods[i]] THEN <<Methods[i]>>
    ELSE <<Methods[i]>> \o tried(succeeds, i + 1)
NoFetch == [status |-> "idle", result |-> FALSE, attempts |-> << >>, ne_dir |-> {}]

\* download_natural_earth(force_redownload) beside the directory dir.
download_natural_earth(dir, force_redownload, succeeds, extraction, extracted) ==
    LET attempts == tried(succeeds, 1)
        download_success == \E i \in 1..Len(Methods) : succeeds[Methods[i]]
        after == dir \cup extracted
        returned(result, ne_dir, att) ==
            [status |-> "returned", result |-> result, attempts |-> att, ne_dir |-> ne_dir]
    IN IF ~force_redownload /\ dir # {}
       THEN returned(TRUE, dir, << >>)
       ELSE IF ~download_success THEN returned(FALSE, dir, attempts)
       ELSE IF extraction = "failed" THEN returned(FALSE, after, attempts)
       ELSE returned(required_files \subseteq after, after, attempts)

Extractions == {"unzip", "zipfile", "failed"}
MaxFetches == 2
NoFetched ==
    [force_redownload |-> FALSE, succeeds |-> [m \in {"curl", "wget", "urllib"} |-> FALSE],
     before |-> {}, calls |-> 0] @@ NoFetch

(***************************************************************************)
(* Input tables                                                            *)
(***************************************************************************)
\* The measurements of one tile: a slower one, a faster one, and one whose
\* speed and latency are missing.
Measurements ==
    { [avg_d_kbps |-> RatInt(100), avg_lat_ms |-> RatInt(30), tests |-> RatInt(1)],
      [avg_d_kbps |-> RatInt(150), avg_lat_ms |-> RatInt(20), tests |-> RatInt(3)],
      [avg_d_kbps |-> NaN, avg_lat_ms |-> NaN, tests |-> RatInt(2)] }
\* Quadkeys of the rows: two tiles, a key with the digit 4, a key with a letter.
RowQuadkeys == {<<"0">>, <<"3">>, <<"4">>, <<"a">>}
\* Province names of the rows, one of them missing.
RowNames == {"Aceh", NA}
\* What a row is drawn from: the rows that differ from the slower measurement
\* of tile <<"0">> in Aceh in at most one of quadkey, name and measurement.
BaseMeasurement == CHOOSE m \in Measurements : m.tests = RatInt(1)
RowChoices ==
    {<<qk, "Aceh", BaseMeasurement>> : qk \in RowQuadkeys}
    \cup {<<<<"0">>, nm, BaseMeasurement>> : nm \in RowNames}
    \cup {<<<<"0">>, "Aceh", m>> : m \in Measurements}

\* A row as the download step writes it (download_ookla.py, lines 162-180),
\* read with the columns quadkey, avg_d_kbps, avg_lat_ms and tests.  When the
\* table carries coordinates of its own they are those of tile <<"0">>.
InputRow(choice, has_latlon) ==
    LET m == choice[3]
        base == ("quadkey" :> choice[1]) @@ ("name" :> choice[2])
                @@ ("year" :> 2024) @@ ("quarter" :> 3) @@ ("data_type" :> "mobile")
                @@ ("avg_d_kbps" :> m.avg_d_kbps) @@ ("avg_lat_ms" :> m.avg_lat_ms)
                @@ ("tests" :> m.tests)
    IN IF has_latlon
       THEN base @@ ("latitude" :> 66513275) @@ ("longitude" :> RatInt(-90))
       ELSE base
InputColumns(has_latlon) ==
    {"quadkey", "name", "year", "quarter", "data_type",
     "avg_d_kbps", "avg_lat_ms", "tests"}
    \cup (IF has_latlon THEN {"latitude", "longitude"} ELSE {})
RECURSIVE InputRowsOf(_, _, _)
InputRowsOf(choices, has_latlon, i) ==
    IF i > Len(choices) THEN << >>
    ELSE <<InputRow(choices[i], has_latlon)>> \o InputRowsOf(choices, has_latlon, i + 1)
InputTable(choices, has_latlon) ==
    [columns |-> InputColumns(has_latlon), rows |-> InputRowsOf(choices, has_latlon, 1)]
EmptyTable == [columns |-> {}, rows |-> << >>]

\* Tables that differ in the measurement columns they carry.  The columns a
\* rule of agg_dict can name, and two records with a value in each of them
\* (Mbps = kbps / 1000, as the download step derives them).
MeasurementColumns ==
    {"avg_d_kbps", "avg_u_kbps", "avg_lat_ms", "tests", "devices",
     "avg_d_mbps", "avg_u_mbps"}
WideMeasurements ==
    { [avg_d_kbps |-> RatInt(100), avg_u_kbps |-> RatInt(50), avg_lat_ms |-> RatInt(30),
       tests |-> RatInt(1), devices |-> RatInt(1),
       avg_d_mbps |-> Rat(100, 1000), avg_u_mbps |-> Rat(50, 1000)],
      [avg_d_kbps |-> RatInt(150), avg_u_kbps |-> RatInt(60), avg_lat_ms |-> RatInt(20),
       tests |-> RatInt(3), devices |-> RatInt(2),
       avg_d_mbps |-> Rat(150, 1000), avg_u_mbps |-> Rat(60, 1000)] }
\* A row of tile <<"0">> with the measurement columns cols, and the province
\* name when the table has one.
ColumnsRow(m, cols, with_name) ==
    LET base == ("quadkey" :> <<"0">>) @@ ("year" :> 2024) @@ ("quarter" :> 3)
                @@ ("data_type" :> "mobile")
        named == IF with_name THEN base @@ ("name" :> "Aceh") ELSE base
    IN named @@ [c \in cols |-> m[c]]
RECURSIVE ColumnsRowsOf(_, _, _, _)
ColumnsRowsOf(choices, cols, with_name, i) ==
    IF i > Len(choices) THEN << >>
    ELSE <<ColumnsRow(choices[i], cols, with_name)>>
         \o ColumnsRowsOf(choices, cols, with_name, i + 1)
ColumnsTable(choices, cols, with_name) ==
    [columns |-> {"quadkey", "year", "quarter", "data_type"} \cup cols
                 \cup (IF with_name THEN {"name"} ELSE {}),
     rows |-> ColumnsRowsOf(choices, cols, with_name, 1)]

\* Tables of several periods, as _prepare_combined concatenates them from
\* the files of several quarters and data types.  A record is (quadkey, year,
\* quarter, data_type, avg_d_kbps): tile <<"0">> over the quarters from 2023
\* Q4 to 2025 Q1, with a zero speed, two records of one quarter, a fixed
\* record beside a mobile one and a missing quarter; and tile <<"3">> in two
\* quarters, with a missing speed.
PeriodChoices ==
    { <<<<"0">>, 2024, 1, "mobile", RatInt(100)>>,
      <<<<"0">>, 2024, 2, "mobile", RatInt(150)>>,
      <<<<"0">>, 2024, 3, "mobile", RatInt(90)>>,
      <<<<"0">>, 2024, 3, "mobile", RatInt(80)>>,
      <<<<"0">>, 2024, 4, "mobile", RatInt(100)>>,
      <<<<"0">>, 2025, 1, "mobile", RatInt(120)>>,
      <<<<"0">>, 2023, 4, "mobile", RatInt(0)>>,
      <<<<"0">>, 2024, 1, "fixed", RatInt(150)>>,
      <<<<"3">>, 2024, 1, "mobile", RatInt(100)>>,
      <<<<"3">>, 2024, 2, "mobile", NaN>>,
      <<<<"0">>, 2023, NaNInt, "mobile", RatInt(100)>> }
\* The row of a record: the upload speed is the download speed plus 10.
PeriodRow(choice) ==
    ("quadkey" :> choice[1]) @@ ("year" :> choice[2]) @@ ("quarter" :> choice[3])
    @@ ("data_type" :> choice[4]) @@ ("avg_d_kbps" :> choice[5])
    @@ ("avg_u_kbps" :> RatAdd(choice[5], RatInt(10))) @@ ("tests" :> RatInt(1))
RECURSIVE PeriodRowsOf(_, _)
PeriodRowsOf(choices, i) ==
    IF i > Len(choices) THEN << >>
    ELSE <<PeriodRow(choices[i])>> \o PeriodRowsOf(choices, i + 1)
PeriodTable(choices) ==
    [columns |-> {"quadkey", "year", "quarter", "data_type",
                  "avg_d_kbps", "avg_u_kbps", "tests"},
     rows |-> PeriodRowsOf(choices, 1)]

(***************************************************************************)
(* State                                                                   *)
(***************************************************************************)
VARIABLES
    quadkey,        \* the argument of the decoder call under way
    decoded,        \* the outcome of that call
    source_table,   \* the table as read from the file
    df,             \* the DataFrame handed to _aggregate_data
    aggregated,     \* the outcome of _aggregate_data
    exported,       \* the outcome of _export_to_excel
    comparison,     \* the outcome of the _create_comparison_file it calls
    workbook,       \* a call of _create_excel_file: its arguments and outcome
    cyclone,        \* IBTracsExtractor.cyclone, from the configuration
    ibtracs_file,   \* the IBTrACS database file on disk
    track,          \* the outcome of the last extract_track()
    extractions,    \* the number of calls of extract_track() so far
    shapefiles,     \* which Natural Earth shapefiles exist
    _countries,     \* NaturalEarthLoader._countries
    _provinces,     \* NaturalEarthLoader._provinces
    current_country,
    current_country_geometry,
    current_provinces,
    call,           \* the last call on the loader and its outcome
    region_info,    \* OoklaDownloader.region_info
    boundaries,     \* OoklaDownloader.boundaries
    operation,      \* the last call on the downloader and its outcome
    calls,          \* the number of calls on the loader or the downloader
    output_dir,     \* the workbooks in the output directory
    prepared,       \* the last call of prepare_tableau_data and its outcome
    ne_dir,         \* the shapefiles under data/raw/natural_earth
    fetched         \* the last call of download_natural_earth and its outcome

vars == <<quadkey, decoded, source_table, df, aggregated, exported, comparison,
          workbook, cyclone, ibtracs_file, track, extractions, shapefiles,
          _countries, _provinces, current_country, current_country_geometry,
          current_provinces, call, region_info, boundaries, operation, calls,
          output_dir, prepared, ne_dir, fetched>>

decode_vars == <<quadkey, decoded>>
aggregate_vars == <<source_table, df, aggregated>>
export_vars == <<exported, comparison>>
\* The state of the other components, and their state before any call.
track_vars == <<cyclone, ibtracs_file, track, extractions>>
loader_vars == <<_countries, _provinces, current_country, current_country_geometry,
                 current_provinces>>
downloader_vars == <<region_info, boundaries>>
region_vars == <<shapefiles, loader_vars, call, downloader_vars, operation, calls>>
prepare_vars == <<output_dir, prepared>>
earth_vars == <<ne_dir, fetched>>
rest_vars == <<workbook, track_vars, region_vars, prepare_vars, earth_vars>>
ExcelIdle == workbook = NoSheetCall
TrackIdle ==
    /\ cyclone = NoCyclone
    /\ ibtracs_file = AbsentFile
    /\ track = NoTrack
    /\ extractions = 0
\* The loader and the downloader as constructed.
LoaderNew ==
    /\ _countries = NoneFrame
    /\ _provinces = NoneFrame
    /\ current_country = None
    /\ current_country_geometry = NoneFrame
    /\ current_provinces = NoneFrame
    /\ call = NoCall
DownloaderNew ==
    /\ region_info = NoRegion
    /\ boundaries = NoneFrame
    /\ operation = NoOperation
RegionIdle ==
    /\ shapefiles = [countries |-> TRUE, provinces |-> TRUE]
    /\ LoaderNew
    /\ DownloaderNew
    /\ calls = 0
PrepareIdle == output_dir = {} /\ prepared = NoPrepared
EarthIdle == ne_dir = {} /\ fetched = NoFetched
RestIdle == ExcelIdle /\ TrackIdle /\ RegionIdle /\ PrepareIdle /\ EarthIdle
\* The loader and the downloader as records of their attributes.
TheLoader ==
    [_countries |-> _countries, _provinces |-> _provinces,
     current_country |-> current_country,
     current_country_geometry |-> current_country_geometry,
     current_provinces |-> current_provinces]
TheDownloader ==
    [region_info |-> region_info, boundaries |-> boundaries, geo_loader |-> TheLoader]
\* The loader becomes the record l.
LoaderBecomes(l) ==
    /\ _countries' = l._countries
    /\ _provinces' = l._provinces
    /\ current_country' = l.current_country
    /\ current_country_geometry' = l.current_country_geometry
    /\ current_provinces' = l.current_provinces
\* The state of the pipeline before any call.
PipelineIdle ==
    /\ quadkey = << >>
    /\ decoded = NoDecode
    /\ source_table = EmptyTable
    /\ df = EmptyTable
    /\ aggregated = NoAggregate
    /\ exported = NoExport
    /\ comparison = NoComparison
pipeline_vars == <<decode_vars, aggregate_vars, export_vars>>

\* The decoder, driven with every quadkey up to MaxLen characters.
InitDecode ==
    /\ quadkey \in Quadkeys
    /\ decoded = NoDecode
    /\ source_table = EmptyTable
    /\ df = EmptyTable
    /\ aggregated = NoAggregate
    /\ exported = NoExport
    /\ comparison = NoComparison
    /\ RestIdle

\* The aggregation, driven with every table of up to MaxRows rows.
InitAggregate ==
    /\ quadkey = << >>
    /\ decoded = NoDecode
    /\ \E has_latlon \in BOOLEAN, n \in 0..MaxRows :
          \E choices \in [1..n -> RowChoices] :
             source_table = InputTable(choices, has_latlon)
    /\ df = source_table
    /\ aggregated = NoAggregate
    /\ exported = NoExport
    /\ comparison = NoComparison
    /\ RestIdle

\* The aggregation, driven with tables of every non-empty choice of the
\* measurement columns.
InitColumns ==
    /\ quadkey = << >>
    /\ decoded = NoDecode
    /\ \E cols \in (SUBSET MeasurementColumns) \ {{}}, with_name \in BOOLEAN,
          n \in 1..MaxRows :
          \E choices \in [1..n -> WideMeasurements] :
             source_table = ColumnsTable(choices, cols, with_name)
    /\ df = source_table
    /\ aggregated = NoAggregate
    /\ exported = NoExport
    /\ comparison = NoComparison
    /\ RestIdle

\* The combined run, driven with every table of up to MaxRows records of
\* several periods.
InitCompare ==
    /\ quadkey = << >>
    /\ decoded = NoDecode
    /\ \E n \in 1..MaxRows :
          \E choices \in [1..n -> PeriodChoices] :
             source_table = PeriodTable(choices)
    /\ df = source_table
    /\ aggregated = NoAggregate
    /\ exported = NoExport
    /\ comparison = NoComparison
    /\ RestIdle

\* One call of _decode_quadkey_to_latlon(quadkey).
Decode ==
    /\ decoded.status = "idle"
    /\ decoded' = _decode_quadkey_to_latlon(quadkey)
    /\ UNCHANGED <<quadkey, aggregate_vars, export_vars, rest_vars>>

\* One call of _aggregate_data(df), df as read from the file.
AggregateData ==
    /\ aggregated.status = "idle"
    /\ \E r \in {_aggregate_data(df)} :
          /\ aggregated' = [status |-> r.status, error |-> r.error, table |-> r.table]
          /\ df' = r.df
    /\ UNCHANGED <<source_table, decode_vars, export_vars, rest_vars>>

\* One call of _export_to_excel(aggregated, output_name), on the table
\* _aggregate_data returned.
ExportToExcel ==
    /\ aggregated.status = "returned"
    /\ exported.status = "idle"
    /\ \E r \in {_export_to_excel(aggregated.table, DOMAIN aggregated.table[1],
                                  output_name)} :
          /\ exported' = r.export
          /\ comparison' = r.comparison
    /\ UNCHANGED <<decode_vars, aggregate_vars, rest_vars>>

\* _create_excel_file alone, driven with every table of up to MaxSheetRows
\* rows, every row limit up to MaxRowLimit and every sheet name.
InitExcel ==
    /\ PipelineIdle
    /\ TrackIdle
    /\ RegionIdle
    /\ PrepareIdle
    /\ EarthIdle
    /\ \E n \in 0..MaxSheetRows, m \in 1..MaxRowLimit, name \in SheetNames :
          workbook = [NoSheetCall EXCEPT !.rows = rows_of(n), !.max_rows = m,
                                         !.sheet_name = name]

\* One call of _create_excel_file(df, output_path, sheet_name).
CreateExcelFile ==
    /\ workbook.status = "idle"
    /\ workbook' = [workbook EXCEPT
                       !.status = "returned",
                       !.written = _create_excel_file(workbook.rows, "output.xlsx",
                                                      workbook.sheet_name,
                                                      workbook.max_rows)]
    /\ UNCHANGED <<pipeline_vars, track_vars, region_vars, prepare_vars, earth_vars>>

\* The extractor of a configured cyclone, beside a database file that is
\* absent, unparsable or any table.
InitTrack ==
    /\ PipelineIdle
    /\ ExcelIdle
    /\ RegionIdle
    /\ PrepareIdle
    /\ EarthIdle
    /\ cyclone \in Cyclones
    /\ ibtracs_file \in {AbsentFile, UnparsableFile} \cup FileContents
    /\ track = NoTrack
    /\ extractions = 0

\* One call of extract_track(): when the file is absent the request does one
\* of the three things and the archive serves any content.
ExtractTrack ==
    /\ extractions < MaxCalls
    /\ \E request \in IF ibtracs_file = AbsentFile THEN Requests ELSE {"complete"},
          remote \in IF ibtracs_file = AbsentFile THEN FileContents ELSE {ibtracs_file} :
          \E partial \in IF request = "interrupted" THEN PartialFiles(remote)
                         ELSE {UnparsableFile} :
             \E r \in {extract_track(ibtracs_file, cyclone, request, remote, partial)} :
                /\ ibtracs_file' = r.file
                /\ track' = r.outcome @@ ("download" :> r.download)
    /\ extractions' = extractions + 1
    /\ UNCHANGED <<cyclone, pipeline_vars, workbook, region_vars, prepare_vars,
                   earth_vars>>

\* A new loader beside any choice of the shapefiles that exist.
InitLoader ==
    /\ PipelineIdle
    /\ ExcelIdle
    /\ TrackIdle
    /\ shapefiles \in [countries : BOOLEAN, provinces : BOOLEAN]
    /\ LoaderNew
    /\ DownloaderNew
    /\ calls = 0
    /\ PrepareIdle
    /\ EarthIdle

\* What a call on the loader leaves unchanged.
LoaderCall ==
    /\ calls < MaxLoaderCalls
    /\ calls' = calls + 1
    /\ UNCHANGED <<pipeline_vars, workbook, track_vars, shapefiles, downloader_vars,
                   operation, prepare_vars, earth_vars>>

\* One call of set_country(country_name).
SetCountry ==
    /\ LoaderCall
    /\ \E country_name \in CountryArguments :
          \E r \in {set_country(TheLoader, shapefiles, country_name)} :
             /\ LoaderBecomes(r.loader)
             /\ call' = LoaderCalled("set_country", country_name, r.outcome)

\* One call of get_country(country_name) or get_country().
GetCountry ==
    /\ LoaderCall
    /\ \E country_name \in CountryArguments \cup {None} :
          \E r \in {get_country(TheLoader, shapefiles, country_name)} :
             /\ LoaderBecomes(r.loader)
             /\ call' = LoaderCalled("get_country", country_name, r.outcome)

\* One call of get_provinces(country_name) or get_provinces().
GetProvinces ==
    /\ LoaderCall
    /\ \E country_name \in CountryArguments \cup {None} :
          \E r \in {get_provinces(TheLoader, shapefiles, country_name)} :
             /\ LoaderBecomes(r.loader)
             /\ call' = LoaderCalled("get_provinces", country_name, r.outcome)

\* One call of get_provinces_by_name(province_names).
GetProvincesByName ==
    /\ LoaderCall
    /\ \E province_names \in ProvinceArguments :
          call' = LoaderCalled("get_provinces_by_name", None,
                               get_provinces_by_name(TheLoader, province_names))
    /\ UNCHANGED loader_vars

NextDecode == Decode
SpecDecode == InitDecode /\ [][NextDecode]_vars

NextAggregate == AggregateData
SpecAggregate == InitAggregate /\ [][NextAggregate]_vars

SpecColumns == InitColumns /\ [][NextAggregate]_vars

NextCompare == AggregateData \/ ExportToExcel
SpecCompare == InitCompare /\ [][NextCompare]_vars

NextExcel == CreateExcelFile
SpecExcel == InitExcel /\ [][NextExcel]_vars

\* A new downloader, its loader included.
InitDownloader ==
    /\ PipelineIdle
    /\ ExcelIdle
    /\ TrackIdle
    /\ shapefiles \in [countries : BOOLEAN, provinces : BOOLEAN]
    /\ LoaderNew
    /\ DownloaderNew
    /\ calls = 0
    /\ PrepareIdle
    /\ EarthIdle

\* What a call on the downloader leaves unchanged.
DownloaderCall ==
    /\ calls < MaxRegionCalls
    /\ calls' = calls + 1
    /\ UNCHANGED <<pipeline_vars, workbook, track_vars, shapefiles, call, prepare_vars,
                   earth_vars>>

\* One call of set_region(region_key, country, provinces).
SetRegion ==
    /\ DownloaderCall
    /\ \E a \in RegionArguments :
          \E r \in {set_region(TheDownloader, shapefiles, a[1], a[2], a[3])} :
             /\ LoaderBecomes(r.downloader.geo_loader)
             /\ region_info' = r.downloader.region_info
             /\ boundaries' = r.downloader.boundaries
             /\ operation' = RegionSet(a[1], a[2], a[3], r.outcome)

\* One call of download(year, quarter, data_type).
Download ==
    /\ DownloaderCall
    /\ \E year \in Years, quarter \in Quarters, data_type \in DataTypes,
          remote \in Remotes, saved \in BOOLEAN :
          operation' = Downloaded(year, quarter, data_type,
                                  download(TheDownloader, year, quarter, data_type,
                                           remote, saved))
    /\ UNCHANGED <<loader_vars, downloader_vars>>

\* prepare_tableau_data beside an empty output directory.
InitPrepare ==
    /\ PipelineIdle
    /\ ExcelIdle
    /\ TrackIdle
    /\ RegionIdle
    /\ PrepareIdle
    /\ EarthIdle

\* One call of prepare_tableau_data(file_paths, output_name).
PrepareTableauData ==
    /\ prepared.calls < MaxPreparations
    /\ \E file_paths \in FilePaths, given_name \in GivenNames, timestamp \in Timestamps :
          \E r \in {prepare_tableau_data(file_paths, given_name, timestamp)} :
             /\ output_dir' = output_dir \cup r.written
             /\ prepared' = [file_paths |-> file_paths, given_name |-> given_name,
                             calls |-> prepared.calls + 1] @@ r
    /\ UNCHANGED <<pipeline_vars, workbook, track_vars, region_vars, earth_vars>>

\* download_natural_earth beside an empty directory or a whole package.
InitEarth ==
    /\ PipelineIdle
    /\ ExcelIdle
    /\ TrackIdle
    /\ RegionIdle
    /\ PrepareIdle
    /\ ne_dir \in {{}, Shapefiles}
    /\ fetched = NoFetched

\* One call of download_natural_earth(force_redownload).
DownloadNaturalEarth ==
    /\ fetched.calls < MaxFetches
    /\ \E force_redownload \in BOOLEAN,
          succeeds \in [{"curl", "wget", "urllib"} -> BOOLEAN],
          extraction \in Extractions, extracted \in SUBSET Shapefiles :
          \E r \in {download_natural_earth(ne_dir, force_redownload, succeeds,
                                           extraction, extracted)} :
             /\ ne_dir' = r.ne_dir
             /\ fetched' = [force_redownload |-> force_redownload,
                            succeeds |-> succeeds, before |-> ne_dir,
                            calls |-> fetched.calls + 1] @@ r
    /\ UNCHANGED <<pipeline_vars, workbook, track_vars, region_vars, prepare_vars>>

NextTrack == ExtractTrack
NextPrepare == PrepareTableauData
SpecPrepare == InitPrepare /\ [][NextPrepare]_vars
NextEarth == DownloadNaturalEarth
SpecEarth == InitEarth /\ [][NextEarth]_vars
NextDownloader == SetRegion \/ Download
SpecDownloader == InitDownloader /\ [][NextDownloader]_vars
NextLoader == SetCountry \/ GetCountry \/ GetProvinces \/ GetProvincesByName
SpecLoader == InitLoader /\ [][NextLoader]_vars
SpecTrack == InitTrack /\ [][NextTrack]_vars

Init ==
    \/ InitDecode \/ InitAggregate \/ InitColumns \/ InitCompare \/ InitExcel
    \/ InitTrack \/ InitLoader \/ InitDownloader \/ InitPrepare \/ InitEarth
Next ==
    \/ Decode \/ AggregateData \/ ExportToExcel \/ CreateExcelFile \/ ExtractTrack
    \/ NextLoader \/ NextDownloader \/ NextPrepare \/ NextEarth
Spec == Init /\ [][Next]_vars

(***************************************************************************)
(* Properties of the decoder                                               *)
(***************************************************************************)
Returned == decoded.status = "returned"
Raised == decoded.status = "raised"
Called == decoded.status # "idle"

\* C1: for a quadkey of length L >= 1 over the digits 0..3, bit L-1-i of
\* tile_x is set iff digit i is 1 or 3, bit L-1-i of tile_y is set iff digit i
\* is 2 or 3, and no other bit is set: 0 <= tile_x, tile_y < 2^L.
C1_TileBits ==
    (Returned /\ IsValidQuadkey(quadkey)) =>
        LET L == Len(quadkey) IN
        /\ \A i \in 0..(L - 1) :
              /\ (Bit(decoded.tile_x, L - 1 - i) = 1) <=> (quadkey[i + 1] \in {"1", "3"})
              /\ (Bit(decoded.tile_y, L - 1 - i) = 1) <=> (quadkey[i + 1] \in {"2", "3"})
        /\ 0 <= decoded.tile_x /\ decoded.tile_x < 2 ^ L
        /\ 0 <= decoded.tile_y /\ decoded.tile_y < 2 ^ L
C1_Witness ==
    /\ Returned
    /\ quadkey = <<"1", "2", "3">>
    /\ decoded.tile_x = 5
    /\ decoded.tile_y = 3

\* C2: decoding a quadkey that holds a character outside 0..3 fails: the call
\* raises and returns no coordinate.
C2_InvalidCharacterFails ==
    (Called /\ \E i \in 1..Len(quadkey) : quadkey[i] \notin ValidDigits) => Raised

\* C3: decoding the empty quadkey fails: the call raises and returns no
\* coordinate.
C3_EmptyQuadkeyFails ==
    (Called /\ Len(quadkey) = 0) => Raised

\* A tolerance of the latitude, in micro-degrees, covering the error of the
\* fixed-point series.
LatTolerance == 50

\* C4: for a valid quadkey the centre pixel lies strictly between 0 and the
\* map size on both axes, x and y lie strictly inside (-1/2, 1/2), the
\* longitude lies in [-180, 180] and the latitude strictly inside (-90, 90).
C4_CoordinateRanges ==
    (Returned /\ IsValidQuadkey(quadkey)) =>
        /\ decoded.map_size = Shl(256, Len(quadkey))
        /\ decoded.pixel_x = decoded.tile_x * 256 + 128
        /\ decoded.pixel_y = decoded.tile_y * 256 + 128
        /\ 0 < decoded.pixel_x /\ decoded.pixel_x < decoded.map_size
        /\ 0 < decoded.pixel_y /\ decoded.pixel_y < decoded.map_size
        /\ RatLess(RatInt(-1), RatMul(RatInt(2), decoded.x))
        /\ RatLess(RatMul(RatInt(2), decoded.x), RatInt(1))
        /\ RatLess(RatInt(-1), RatMul(RatInt(2), decoded.y))
        /\ RatLess(RatMul(RatInt(2), decoded.y), RatInt(1))
        /\ RatLeq(RatInt(-180), decoded.longitude)
        /\ RatLeq(decoded.longitude, RatInt(180))
        /\ -90000000 + LatTolerance < decoded.latitude
        /\ decoded.latitude < 90000000 - LatTolerance
C4_Witness ==
    /\ Returned
    /\ quadkey = <<"3", "3", "3">>
    /\ decoded.pixel_x = 1920
    /\ decoded.map_size = 2048
    /\ decoded.latitude < -79000000

\* C5: quadkey "0" is tile (0, 0) with centre pixel (128, 128) on a canvas of
\* 512 pixels, longitude -90 and latitude 66.51326 (within LatTolerance);
\* quadkey "3" is tile (1, 1) with centre pixel (384, 384), longitude 90 and
\* latitude -66.51326.
C5_Fixtures ==
    /\ (Returned /\ quadkey = <<"0">>) =>
          /\ decoded.tile_x = 0 /\ decoded.tile_y = 0
          /\ decoded.pixel_x = 128 /\ decoded.pixel_y = 128
          /\ decoded.map_size = 512
          /\ decoded.longitude = RatInt(-90)
          /\ Abs(decoded.latitude - 66513260) <= LatTolerance
    /\ (Returned /\ quadkey = <<"3">>) =>
          /\ decoded.tile_x = 1 /\ decoded.tile_y = 1
          /\ decoded.pixel_x = 384 /\ decoded.pixel_y = 384
          /\ decoded.map_size = 512
          /\ decoded.longitude = RatInt(90)
          /\ Abs(decoded.latitude + 66513260) <= LatTolerance
C5_Witness ==
    /\ Returned
    /\ quadkey = <<"3">>
    /\ decoded.longitude = RatInt(90)
    /\ decoded.latitude < 0

(***************************************************************************)
(* Properties of the aggregation                                           *)
(***************************************************************************)
AggReturned == aggregated.status = "returned"
AggRaised == aggregated.status = "raised"
AggCalled == aggregated.status # "idle"

\* The rows of a table as a set.
RowSet(table) == {table[i] : i \in 1..Len(table)}
\* The group key of a row of the table the aggregation grouped.
KeyOf(row) == row_key(row, group_cols(df.columns), 1)
\* The same key read off an output row.
OutKeyOf(out) == row_key(out, group_cols(df.columns), 1)
\* A table with a row whose quadkey is empty or holds a character outside 0..3.
HasMalformedQuadkey(table) ==
    \E i \in 1..Len(table.rows) : ~IsValidQuadkey(table.rows[i]["quadkey"])

\* C6: the aggregation fails whenever a record of its input has a malformed
\* quadkey: the error propagates and no table is returned, so no such record
\* appears in the output with a decoded coordinate.  Stated for the tables
\* that carry no latitude and longitude of their own, whose quadkeys are the
\* ones decoded (a table that carries them is not decoded at all).
C6_MalformedQuadkeyFails ==
    (/\ AggCalled
     /\ "latitude" \notin source_table.columns
     /\ HasMalformedQuadkey(source_table)) => AggRaised

\* C7: the output has exactly one row per distinct group key of the input,
\* every input row (one with a missing key value too) belongs to exactly one
\* output group, and so there are at most as many output rows as input rows,
\* with equality iff every input row is alone in its group.
C7_OneRowPerGroup ==
    AggReturned =>
        LET rows == df.rows
            out == aggregated.table
            keys == {KeyOf(rows[i]) : i \in 1..Len(rows)}
        IN /\ Len(out) = Cardinality(keys)
           /\ \A j \in 1..Len(out) : OutKeyOf(out[j]) \in keys
           /\ \A i \in 1..Len(rows) :
                 Cardinality({j \in 1..Len(out) : OutKeyOf(out[j]) = KeyOf(rows[i])}) = 1
           /\ Len(out) <= Len(rows)
           /\ (Len(out) = Len(rows)) <=>
                 (\A i, k \in 1..Len(rows) : KeyOf(rows[i]) = KeyOf(rows[k]) => i = k)
C7_Witness ==
    /\ AggReturned
    /\ Len(source_table.rows) = 3
    /\ Len(aggregated.table) = 2
    /\ \E i \in 1..3 : source_table.rows[i]["name"] = NA

\* The table with rows i and i + 1 exchanged.
SwapRows(table, i) ==
    [table EXCEPT !.rows = [@ EXCEPT ![i] = table.rows[i + 1], ![i + 1] = table.rows[i]]]

\* C8: the set of output rows does not depend on the order of the input rows.
\* Exchanging two neighbouring rows leaves the outcome and the set of output
\* rows as they are, in every table of the inputs; every permutation is a
\* sequence of such exchanges.
C8_RowOrderIrrelevant ==
    AggCalled =>
        \A i \in 1..(Len(source_table.rows) - 1) :
            LET other == _aggregate_data(SwapRows(source_table, i))
            IN /\ other.status = aggregated.status
               /\ other.error = aggregated.error
               /\ RowSet(other.table) = RowSet(aggregated.table)
C8_Witness ==
    /\ AggReturned
    /\ Len(source_table.rows) = 3
    /\ source_table.rows[1] # source_table.rows[2]
    /\ KeyOf(df.rows[1]) = KeyOf(df.rows[2])
    /\ source_table.rows[2] # source_table.rows[3]
    /\ Len(aggregated.table) = 2

\* C9: a single input row gives exactly one output row in which the mean, the
\* minimum and the maximum of every measurement column are the row's value
\* (missing when the value is missing), the standard deviation is undefined
\* and the sums are the row's counts.
C9_SingleRow ==
    (AggReturned /\ Len(source_table.rows) = 1) =>
        LET row == source_table.rows[1]
            out == aggregated.table[1]
        IN /\ Len(aggregated.table) = 1
           /\ out["avg_d_kbps_mean"] = row["avg_d_kbps"]
           /\ out["avg_d_kbps_min"] = row["avg_d_kbps"]
           /\ out["avg_d_kbps_max"] = row["avg_d_kbps"]
           /\ out["avg_d_kbps_std"] = Sqrt(NaN)
           /\ out["avg_lat_ms_mean"] = row["avg_lat_ms"]
           /\ out["avg_lat_ms_min"] = row["avg_lat_ms"]
           /\ out["avg_lat_ms_max"] = row["avg_lat_ms"]
           /\ out["tests_sum"] = row["tests"]
           /\ \A c \in DOMAIN row : c \in DOMAIN out => out[c] = row[c]
C9_Witness ==
    /\ AggReturned
    /\ Len(source_table.rows) = 1
    /\ Len(aggregated.table) = 1
    /\ aggregated.table[1]["avg_d_kbps_mean"] = RatInt(150)

\* C10: the aggregation of zero records fails by a check of its own, with
\* EmptyInputError, and returns no table.
C10_EmptyInputFailsExplicitly ==
    (AggCalled /\ Len(source_table.rows) = 0) =>
        (AggRaised /\ aggregated.error = "EmptyInputError")

\* The statistics the aggregation is to compute on a table with the given
\* columns, as (column, statistic) pairs.
RateColumns == {"avg_d_kbps", "avg_u_kbps", "avg_d_mbps", "avg_u_mbps"}
ClaimedStatistics(columns) ==
    {<<c, f>> : c \in RateColumns \cap columns, f \in {"mean", "min", "max", "std"}}
    \cup {<<c, f>> : c \in {"avg_lat_ms"} \cap columns, f \in {"mean", "min", "max"}}
    \cup {<<c, "sum">> : c \in {"tests", "devices"} \cap columns}

\* C11: the statistic columns of the output are exactly mean/min/max/std of
\* each rate-like column present (avg_d_kbps, avg_u_kbps, avg_d_mbps,
\* avg_u_mbps), mean/min/max of avg_lat_ms if present and sum of tests and of
\* devices if present; a column absent from the input gives no output column.
C11_StatisticColumns ==
    AggReturned =>
        LET rules == agg_dict(df.columns)
            stats == stat_columns(rules)
            gc == group_cols(df.columns)
        IN /\ {<<rules[st.rule].col, st.func>> : st \in stats}
                 = ClaimedStatistics(source_table.columns)
           /\ \A j \in 1..Len(aggregated.table) :
                 DOMAIN aggregated.table[j]
                    = {gc[i] : i \in 1..Len(gc)} \cup {st.name : st \in stats}

(***************************************************************************)
(* Properties of the comparison                                            *)
(***************************************************************************)
CmpCalled == comparison.status # "idle"
CmpReturned == comparison.status = "returned"
\* The bins the comparison was made from.
Bins == aggregated.table
\* Every row has a quarter in 1..4.
ValidQuarters(rows) == \A i \in 1..Len(rows) : rows[i]["quarter"] \in 1..4
\* The place of a row's period in time.
PeriodIndex(row) == row["year"] * 4 + row["quarter"]
\* The rows of the quadkey of row j that lie in a strictly earlier period.
EarlierRows(rows, j) ==
    {k \in 1..Len(rows) : /\ rows[k]["quadkey"] = rows[j]["quadkey"]
                          /\ PeriodIndex(rows[k]) < PeriodIndex(rows[j])}
\* Those of them that lie in the latest such period.
PrecedingRows(rows, j) ==
    {k \in EarlierRows(rows, j) :
        \A m \in EarlierRows(rows, j) : PeriodIndex(rows[m]) <= PeriodIndex(rows[k])}
\* A record of the given period and download speed is in the input table.
HasRecord(year, quarter, kbps) ==
    \E i \in 1..Len(source_table.rows) :
        /\ source_table.rows[i]["year"] = year
        /\ source_table.rows[i]["quarter"] = quarter
        /\ source_table.rows[i]["avg_d_kbps"] = RatInt(kbps)

\* C12: the baseline period is the earliest (year, quarter) pair of the
\* input, the one that minimises year*4 + quarter, for every non-empty table
\* whose quarters are in 1..4, whatever the order of its rows.
C12_BaselineIsEarliest ==
    (CmpCalled /\ Len(Bins) > 0 /\ ValidQuarters(Bins)) =>
        /\ \E i \in 1..Len(Bins) :
              /\ Bins[i]["year"] = comparison.baseline_year
              /\ Bins[i]["quarter"] = comparison.baseline_quarter
        /\ \A i \in 1..Len(Bins) :
              comparison.baseline_year * 4 + comparison.baseline_quarter
                 <= PeriodIndex(Bins[i])
C12_Witness ==
    /\ CmpReturned
    /\ ValidQuarters(Bins)
    /\ Len(source_table.rows) = 3
    /\ source_table.rows[1]["year"] = 2024 /\ source_table.rows[1]["quarter"] = 1
    /\ source_table.rows[3]["year"] = 2023 /\ source_table.rows[3]["quarter"] = 4
    /\ comparison.baseline_year = 2023
    /\ comparison.baseline_quarter = 4

\* C13: the previous values of a row, from which its quarter-over-quarter
\* change is computed, are those of a row of the same quadkey in the latest
\* strictly earlier period, and missing when the quadkey has no earlier
\* period; also when a quadkey has several rows in one period.
C13_PreviousIsEarlierPeriod ==
    (CmpReturned /\ ValidQuarters(Bins)) =>
        LET rows == comparison.previous
        IN \A j \in 1..Len(rows) :
              IF PrecedingRows(rows, j) = {}
              THEN /\ IsNaN(rows[j]["prev_d_kbps"])
                   /\ IsNaN(rows[j]["prev_u_kbps"])
                   /\ rows[j]["prev_year"] = NaNInt
              ELSE \E k \in PrecedingRows(rows, j) :
                      /\ rows[j]["prev_d_kbps"] = rows[k]["avg_d_kbps_mean"]
                      /\ rows[j]["prev_u_kbps"] = rows[k]["avg_u_kbps_mean"]
                      /\ rows[j]["prev_year"] = rows[k]["year"]
                      /\ rows[j]["prev_quarter"] = rows[k]["quarter"]

\* The percent-change columns of the comparison table.
ChangeColumns ==
    {"d_kbps_pct_change", "u_kbps_pct_change", "d_kbps_qoq_change",
     "u_kbps_qoq_change", "d_kbps_cumulative_change", "u_kbps_cumulative_change"}
NullOrZero(v) == IsNaN(v) \/ v = RatInt(0)

\* C14: no percent change is infinite and none raises: the change from the
\* baseline is null when the baseline value is null or zero, and the
\* quarter-over-quarter change is null when there is no previous row or the
\* previous value is null or zero.
C14_NoInfiniteChange ==
    /\ CmpCalled => comparison.status # "raised"
    /\ CmpReturned =>
          \A j \in 1..Len(comparison.table) :
             LET row == comparison.table[j]
                 prev == comparison.previous[j]
             IN /\ \A c \in ChangeColumns : ~IsInf(row[c])
                /\ NullOrZero(row["baseline_d_kbps"]) => IsNaN(row["d_kbps_pct_change"])
                /\ NullOrZero(row["baseline_u_kbps"]) => IsNaN(row["u_kbps_pct_change"])
                /\ NullOrZero(prev["prev_d_kbps"]) => IsNaN(row["d_kbps_qoq_change"])
                /\ NullOrZero(prev["prev_u_kbps"]) => IsNaN(row["u_kbps_qoq_change"])

\* C15: when no row lies in the baseline period the comparison raises
\* NoBaselineError to its caller, and no comparison file is produced or
\* entered in output_files.
C15_NoBaselineRaises ==
    (CmpCalled /\ Len(comparison.baseline) = 0) =>
        /\ comparison.status = "raised"
        /\ comparison.error = "NoBaselineError"
        /\ \A i \in 1..Len(exported.output_files) :
              exported.output_files[i].type # "comparison"
        /\ \A i \in 1..Len(exported.written) :
              exported.written[i].path # output_name \o "_comparison.xlsx"

\* The columns that order the comparison table.
ComparisonOrder == <<"quadkey", "year", "quarter">>
\* The row above row j when it is of the same quadkey, 0 otherwise: in a table
\* ordered by quadkey, the previous row of the quadkey.
PrevRow(table, j) ==
    IF j > 1 /\ table[j - 1]["quadkey"] = table[j]["quadkey"] THEN j - 1 ELSE 0
\* Row j is of the given period and mean download speed.
IsBin(table, j, year, quarter, kbps) ==
    /\ table[j]["year"] = year
    /\ table[j]["quarter"] = quarter
    /\ table[j]["avg_d_kbps_mean"] = RatInt(kbps)

\* C16: the comparison table is in (quadkey, year, quarter) order, and
\* is_year_transition is true for a row iff its quarter is 1, it has a
\* previous row of the same quadkey, that row's quarter is 4 and that row's
\* year differs; it is false for a row without a previous row.  A bin of 120
\* in 2025 Q1 after one of 100 in 2024 Q4 has the flag set and a
\* quarter-over-quarter change of +20.
C16_YearTransition ==
    CmpReturned =>
        LET t == comparison.table
        IN /\ \A j \in 1..(Len(t) - 1) :
                 ~key_less(ComparisonOrder, row_key(t[j + 1], ComparisonOrder, 1),
                           row_key(t[j], ComparisonOrder, 1), 1)
           /\ \A j \in 1..Len(t) :
                 LET p == PrevRow(t, j)
                 IN /\ t[j]["is_year_transition"] <=>
                          (/\ t[j]["quarter"] = 1
                           /\ p # 0
                           /\ t[p]["quarter"] = 4
                           /\ t[p]["year"] # t[j]["year"])
                    /\ (p # 0 /\ IsBin(t, p, 2024, 4, 100) /\ IsBin(t, j, 2025, 1, 120)) =>
                          /\ t[j]["is_year_transition"]
                          /\ t[j]["d_kbps_qoq_change"] = RatInt(20)
C16_Witness ==
    /\ CmpReturned
    /\ Len(comparison.table) = 3
    /\ comparison.table[1]["quadkey"] = <<"0">>
    /\ IsBin(comparison.table, 1, 2024, 4, 100)
    /\ IsBin(comparison.table, 2, 2025, 1, 120)
    /\ comparison.table[2]["is_year_transition"]
    /\ comparison.table[2]["d_kbps_qoq_change"] = RatInt(20)
    /\ comparison.table[3]["quadkey"] = <<"3">>
    /\ ~comparison.table[3]["is_year_transition"]

\* C17: a row of year Y flagged as a year transition has quarter 1 and its
\* previous row is quarter 4 of year Y - 1.
C17_TransitionIsConsecutive ==
    CmpReturned =>
        LET t == comparison.table
        IN \A j \in 1..Len(t) :
              t[j]["is_year_transition"] =>
                 LET p == PrevRow(t, j)
                 IN /\ t[j]["quarter"] = 1
                    /\ p # 0
                    /\ t[p]["quarter"] = 4
                    /\ t[p]["year"] = t[j]["year"] - 1

\* The rows of the quadkey of row j.
RowsOfQuadkey(table, j) ==
    {k \in 1..Len(table) : table[k]["quadkey"] = table[j]["quadkey"]}
\* Row j lies in the baseline period.
InBaseline(table, j) ==
    /\ table[j]["year"] = comparison.baseline_year
    /\ table[j]["quarter"] = comparison.baseline_quarter

\* change is the percent change of value from reference:
\* change * reference = (value - reference) * 100.
IsPercentChange(change, value, reference) ==
    RatMul(change, reference) = RatMul(RatSub(value, reference), RatInt(100))

OneBinPerPeriod(table, j) ==
    \A k, m \in RowsOfQuadkey(table, j) :
        (table[k]["year"] = table[m]["year"] /\ table[k]["quarter"] = table[m]["quarter"])
           => k = m

\* C19: for a quadkey with one bin per period, whose earliest period is the
\* baseline period and whose values are not zero, each row's pct_change is
\* (value - first_value) / first_value * 100, the first row's qoq_change is
\* null and each later row's is (value - previous_value) / previous_value *
\* 100.  The values 100, 150, 90 of 2024 Q1..Q3 give the baseline 100, the
\* pct_change 0, +50, -10, the qoq_change null, +50, -40, and no year
\* transition.
C19_ChangesOfOneBinPerPeriod ==
    (CmpReturned /\ ValidQuarters(Bins)) =>
        LET t == comparison.table
        IN \A j \in 1..Len(t) :
              LET own == RowsOfQuadkey(t, j)
                  p == PrevRow(t, j)
              IN (/\ OneBinPerPeriod(t, j)
                  /\ \E f \in own : InBaseline(t, f)
                  /\ \A k \in own : /\ t[k]["avg_d_kbps_mean"] # RatInt(0)
                                    /\ t[k]["avg_u_kbps_mean"] # RatInt(0)) =>
                    LET f == CHOOSE f \in own : InBaseline(t, f)
                    IN /\ t[j]["baseline_d_kbps"] = t[f]["avg_d_kbps_mean"]
                       /\ t[j]["baseline_u_kbps"] = t[f]["avg_u_kbps_mean"]
                       /\ IsPercentChange(t[j]["d_kbps_pct_change"],
                                          t[j]["avg_d_kbps_mean"], t[f]["avg_d_kbps_mean"])
                       /\ IsPercentChange(t[j]["u_kbps_pct_change"],
                                          t[j]["avg_u_kbps_mean"], t[f]["avg_u_kbps_mean"])
                       /\ p = 0 => /\ j = f
                                   /\ IsNaN(t[j]["d_kbps_qoq_change"])
                                   /\ IsNaN(t[j]["u_kbps_qoq_change"])
                       /\ p # 0 =>
                             /\ IsPercentChange(t[j]["d_kbps_qoq_change"],
                                                t[j]["avg_d_kbps_mean"],
                                                t[p]["avg_d_kbps_mean"])
                             /\ IsPercentChange(t[j]["u_kbps_qoq_change"],
                                                t[j]["avg_u_kbps_mean"],
                                                t[p]["avg_u_kbps_mean"])
                       /\ (Len(t) = 3 /\ IsBin(t, 1, 2024, 1, 100) /\ IsBin(t, 2, 2024, 2, 150)
                           /\ IsBin(t, 3, 2024, 3, 90)) =>
                             /\ t[j]["baseline_d_kbps"] = RatInt(100)
                             /\ t[1]["d_kbps_pct_change"] = RatInt(0)
                             /\ t[2]["d_kbps_pct_change"] = RatInt(50)
                             /\ t[3]["d_kbps_pct_change"] = RatInt(-10)
                             /\ IsNaN(t[1]["d_kbps_qoq_change"])
                             /\ t[2]["d_kbps_qoq_change"] = RatInt(50)
                             /\ t[3]["d_kbps_qoq_change"] = RatInt(-40)
                             /\ ~t[j]["is_year_transition"]
C19_Witness ==
    /\ CmpReturned
    /\ Len(comparison.table) = 3
    /\ IsBin(comparison.table, 1, 2024, 1, 100)
    /\ IsBin(comparison.table, 2, 2024, 2, 150)
    /\ IsBin(comparison.table, 3, 2024, 3, 90)
    /\ comparison.table[3]["quadkey"] = comparison.table[1]["quadkey"]
    /\ comparison.table[2]["d_kbps_pct_change"] = RatInt(50)
    /\ comparison.table[3]["d_kbps_qoq_change"] = RatInt(-40)

\* The (quadkey, year, quarter) triples of a table.
PeriodKeys(table) ==
    {row_key(table[j], ComparisonOrder, 1) : j \in 1..Len(table)}

\* C20: with one bin per quadkey and period, the previous row of a bin is the
\* bin of the nearest earlier period of the quadkey that is in the table,
\* there is none iff the quadkey has no earlier period, and the comparison
\* table has one row per bin and no (quadkey, year, quarter) that is not in
\* the input.  A bin of 80 in 2024 Q3 after one of 100 in 2024 Q1, with no
\* bin in Q2, has a quarter-over-quarter change of -20.
C20_GapIsSkipped ==
    (/\ CmpReturned
     /\ ValidQuarters(Bins)
     /\ \A j \in 1..Len(Bins) : OneBinPerPeriod(Bins, j)) =>
        LET t == comparison.table
            previous == comparison.previous
        IN /\ Len(t) = Len(Bins)
           /\ PeriodKeys(t) = PeriodKeys(Bins)
           /\ \A j \in 1..Len(t) :
                 LET p == PrevRow(t, j)
                 IN /\ (p = 0) <=> (EarlierRows(t, j) = {})
                    /\ p = 0 => IsNaN(t[j]["d_kbps_qoq_change"])
                    /\ p # 0 =>
                          /\ PrecedingRows(t, j) = {p}
                          /\ previous[j]["prev_d_kbps"] = t[p]["avg_d_kbps_mean"]
                          /\ previous[j]["prev_u_kbps"] = t[p]["avg_u_kbps_mean"]
                          /\ previous[j]["prev_year"] = t[p]["year"]
                          /\ previous[j]["prev_quarter"] = t[p]["quarter"]
                    /\ (p # 0 /\ IsBin(t, p, 2024, 1, 100) /\ IsBin(t, j, 2024, 3, 80)) =>
                          t[j]["d_kbps_qoq_change"] = RatInt(-20)
C20_Witness ==
    /\ CmpReturned
    /\ Len(comparison.table) = 2
    /\ IsBin(comparison.table, 1, 2024, 1, 100)
    /\ IsBin(comparison.table, 2, 2024, 3, 80)
    /\ comparison.previous[2]["prev_quarter"] = 1
    /\ comparison.table[2]["d_kbps_qoq_change"] = RatInt(-20)

\* The columns of row, restricted to those of the bin.
ColumnsOf(row, bin) == [c \in DOMAIN bin |-> row[c]]
\* The quadkey of row j of the table has a bin in the baseline period.
QuadkeyInBaseline(table, j) ==
    \E k \in 1..Len(Bins) : /\ Bins[k]["quadkey"] = table[j]["quadkey"]
                            /\ InBaseline(Bins, k)

\* C21: the comparison raises nothing, its table has exactly one row for
\* every bin (the bin's columns unchanged, none twice, none missing), and a
\* row whose quadkey has no bin in the baseline period has null baseline
\* values and null percent changes from the baseline.
C21_JoinPreservesRows ==
    /\ CmpCalled => comparison.status # "raised"
    /\ CmpReturned =>
          LET t == comparison.table
          IN /\ Len(t) = Len(Bins)
             /\ \A i \in 1..Len(Bins) :
                   Cardinality({j \in 1..Len(t) : ColumnsOf(t[j], Bins[i]) = Bins[i]}) = 1
             /\ \A j \in 1..Len(t) :
                   ~QuadkeyInBaseline(t, j) =>
                      /\ IsNaN(t[j]["baseline_d_kbps"])
                      /\ IsNaN(t[j]["baseline_u_kbps"])
                      /\ IsNaN(t[j]["d_kbps_pct_change"])
                      /\ IsNaN(t[j]["u_kbps_pct_change"])
                      /\ IsNaN(t[j]["d_kbps_cumulative_change"])
                      /\ IsNaN(t[j]["u_kbps_cumulative_change"])
C21_Witness ==
    /\ CmpReturned
    /\ Len(comparison.table) = 3
    /\ comparison.baseline_year = 2023
    /\ InBaseline(comparison.table, 1)
    /\ comparison.table[1]["quadkey"] = <<"0">>
    /\ comparison.table[3]["quadkey"] = <<"3">>
    /\ comparison.table[3]["avg_d_kbps_mean"] = RatInt(100)
    /\ ~QuadkeyInBaseline(comparison.table, 3)
    /\ IsNaN(comparison.table[3]["baseline_d_kbps"])
    /\ IsNaN(comparison.table[3]["d_kbps_pct_change"])

\* The sum of the column col over the rows of the table with index in S.
RECURSIVE SumOver(_, _, _)
SumOver(table, S, col) ==
    IF S = {} THEN RatInt(0)
    ELSE LET k == CHOOSE k \in S : TRUE
         IN RatAdd(table[k][col], SumOver(table, S \ {k}, col))
\* v is the arithmetic mean of the non-null values of col over those rows,
\* null when there is none.
IsMeanOver(v, table, S, col) ==
    LET valued == {k \in S : ~IsNaN(table[k][col])}
    IN IF valued = {} THEN IsNaN(v)
       ELSE RatMul(v, RatInt(Cardinality(valued))) = SumOver(table, valued, col)
\* The bins of the quadkey of row j that lie in the baseline period.
BaselineBins(table, j) ==
    {k \in 1..Len(Bins) : /\ Bins[k]["quadkey"] = table[j]["quadkey"]
                          /\ InBaseline(Bins, k)}

\* C22: on every row of a quadkey that has bins in the baseline period,
\* baseline_d_kbps and baseline_u_kbps are the arithmetic means of the
\* quadkey's mean download and upload values over all of its bins of the
\* baseline period, so all rows of one quadkey carry the same baseline values.
C22_BaselineIsMeanOfPeriod ==
    CmpReturned =>
        LET t == comparison.table
        IN \A j \in 1..Len(t) :
              /\ BaselineBins(t, j) # {} =>
                    /\ IsMeanOver(t[j]["baseline_d_kbps"], Bins, BaselineBins(t, j),
                                  "avg_d_kbps_mean")
                    /\ IsMeanOver(t[j]["baseline_u_kbps"], Bins, BaselineBins(t, j),
                                  "avg_u_kbps_mean")
              /\ \A k \in RowsOfQuadkey(t, j) :
                    /\ t[k]["baseline_d_kbps"] = t[j]["baseline_d_kbps"]
                    /\ t[k]["baseline_u_kbps"] = t[j]["baseline_u_kbps"]
C22_Witness ==
    /\ CmpReturned
    /\ Len(comparison.table) = 3
    /\ Len(comparison.baseline) = 2
    /\ \A j \in 1..3 : comparison.table[j]["quadkey"] = <<"0">>
    /\ comparison.table[1]["avg_d_kbps_mean"] = RatInt(150)
    /\ comparison.table[2]["avg_d_kbps_mean"] = RatInt(100)
    /\ ~InBaseline(comparison.table, 3)
    /\ comparison.table[3]["baseline_d_kbps"] = RatInt(125)
    /\ comparison.table[3]["baseline_u_kbps"] = RatInt(135)

(***************************************************************************)
(* Properties of _create_excel_file                                        *)
(***************************************************************************)
SheetsWritten == workbook.status = "returned"
\* ceil(n / m)
CeilDiv(n, m) == (n + m - 1) \div m
\* The rows of the sheets from k on, one after the other.
RECURSIVE SheetRows(_, _, _)
SheetRows(rows, sheets, k) ==
    IF k > Len(sheets) THEN << >>
    ELSE iloc(rows, sheets[k].start, sheets[k].end) \o SheetRows(rows, sheets, k + 1)
\* What C23 says of the sheets but for their number being at least one.
SheetsSplitTable ==
    LET rows == workbook.rows
        n == Len(rows)
        m == workbook.max_rows
        sheets == workbook.written.sheets
    IN /\ Len(sheets) = CeilDiv(n, m)
       /\ \A k \in 1..Len(sheets) :
             /\ sheets[k].start < sheets[k].end
             /\ sheets[k].end - sheets[k].start <= m
             /\ sheets[k].start = IF k = 1 THEN 0 ELSE sheets[k - 1].end
             /\ k = Len(sheets) => sheets[k].end = n
             /\ sheets[k].name =
                   IF Len(sheets) > 1 THEN workbook.sheet_name \o "_" \o ToString(k)
                   ELSE workbook.sheet_name
       /\ SheetRows(rows, sheets, 1) = rows

TrackCalled == track.status # "idle"
\* The database file is there, was read, and holds rows of the cyclone.
ArchiveHasCyclone ==
    /\ track.download \in {"exists", "complete"}
    /\ ibtracs_file.state = "table"
    /\ {"NAME", "SEASON"} \subseteq ibtracs_file.columns
    /\ \E i \in 1..Len(ibtracs_file.rows) : matches(ibtracs_file.rows[i], cyclone)

\* C24: every call of extract_track returns a track, never None and never
\* an exception: the rows of the cyclone in the archive when the database
\* file is available, readable and holds the cyclone, and otherwise a
\* synthetic track, every row of which has data_source = 'synthetic'.
C24_AlwaysATrack ==
    TrackCalled =>
        /\ track.status = "returned"
        /\ IF ArchiveHasCyclone
           THEN /\ track.source = "archive"
                /\ Len(track.track) =
                      Cardinality({i \in 1..Len(ibtracs_file.rows) :
                                     matches(ibtracs_file.rows[i], cyclone)})
                /\ \A j \in 1..Len(track.track) :
                      /\ matches(track.track[j], cyclone)
                      /\ "data_source" \notin DOMAIN track.track[j]
           ELSE /\ track.source = "synthetic"
                /\ \A j \in 1..Len(track.track) :
                      track.track[j]["data_source"] = "synthetic"

(***************************************************************************)
(* Properties of the loader                                                *)
(***************************************************************************)
\* The step is a call of one of the operations ops on the loader.
LoaderStep(ops) == calls' = calls + 1 /\ call'.op \in ops
ContextUnchanged ==
    UNCHANGED <<current_country, current_country_geometry, current_provinces>>

\* C25: get_country(name) and get_provinces(name) with an explicit country
\* name leave current_country, current_country_geometry and
\* current_provinces as they were, whether the call returns or raises.
C25_ExplicitNameKeepsContext ==
    [][(LoaderStep({"get_country", "get_provinces"}) /\ call'.country_name # None)
          => ContextUnchanged]_vars
\* get_country('Brazil') returned Brazil while the context is Indonesia.
C25_Witness ==
    /\ call.op = "get_country"
    /\ call.country_name = "Brazil"
    /\ call.status = "returned"
    /\ call.result = Frame({[NAME |-> "Brazil"]})
    /\ current_country = "Indonesia"
    /\ current_country_geometry = Frame({[NAME |-> "Indonesia"]})
    /\ current_provinces = Frame(province_rows(TheLoader, "Indonesia"))

\* C29: a set_country that raises because the country is not found leaves
\* current_country, current_country_geometry and current_provinces as they
\* were.
C29_NotFoundKeepsContext ==
    [][(LoaderStep({"set_country"}) /\ call'.error = CountryNotFound)
          => ContextUnchanged]_vars

(***************************************************************************)
(* Properties of the downloader                                            *)
(***************************************************************************)
\* The step is a call of download.
DownloadStep == calls' = calls + 1 /\ operation'.op = "download"
InvalidArguments(o) ==
    \/ o.year \notin available_years
    \/ o.quarter \notin available_quarters
    \/ o.data_type \notin data_types

\* C27: a download while region_info is None raises ValueError, and so does
\* one with an invalid year, quarter or data_type, in both cases before the
\* remote read and leaving the downloader as it was; every other download
\* returns (the data or None), whatever fails in it.
C27_DownloadNeedsRegion ==
    [][DownloadStep =>
          IF region_info.is_none \/ InvalidArguments(operation')
          THEN /\ operation'.status = "raised"
               /\ operation'.error =
                     IF region_info.is_none THEN RegionNotSet ELSE "ValueError"
               /\ ~operation'.read
               /\ UNCHANGED <<downloader_vars, loader_vars>>
          ELSE /\ operation'.status = "returned"
               /\ operation'.read]_vars
\* A download of quarter 0 of 2024 raised after a region was set.
C27_Witness ==
    /\ operation.op = "download"
    /\ ~region_info.is_none
    /\ ~boundaries.is_none
    /\ operation.year = 2024
    /\ operation.quarter = 0
    /\ operation.data_type = "mobile"
    /\ operation.status = "raised"
    /\ operation.error = "ValueError"
    /\ ~operation.read

\* The provinces region_info names, as the provinces shapefile has them.
ProvincesOfRegion ==
    {q \in ProvincesShapefile :
        q.admin = region_info.country /\ q.name \in region_info.provinces}

\* C28: region_info and boundaries describe the same region after any
\* calls of set_region, returning or raising, and the rows a download
\* returns carry the name and country of the region whose boundaries
\* filtered them.
C28_RegionAndBoundariesAgree ==
    /\ region_info.is_none <=> boundaries.is_none
    /\ ~region_info.is_none => boundaries.rows = ProvincesOfRegion
    /\ (operation.op = "download" /\ ~operation.is_none) =>
          \A row \in operation.rows :
             /\ row["region"] = region_info.name
             /\ row["country"] = region_info.country
             /\ \E q \in ProvincesShapefile :
                   q.name = row["name"] /\ q.admin = row["country"]

(***************************************************************************)
(* Properties of prepare_tableau_data                                      *)
(***************************************************************************)
\* The stems of the input files of the last call that exist.
StemsPrepared ==
    {prepared.file_paths[i].stem :
        i \in {i \in 1..Len(prepared.file_paths) : prepared.file_paths[i].exists}}
\* The file names that have base_name as their base name.
NamesFrom(base_name) ==
    {base_name \o ".xlsx"}
    \cup {base_name \o "_" \o stem \o ".xlsx" : stem \in StemsPrepared}
    \cup {base_name \o "_" \o kind \o ".xlsx" :
            kind \in {"combined", "mobile", "fixed", "comparison"}}

\* C26: a call of prepare_tableau_data with an output_name runs in the
\* individual mode, one Excel file per input file, and the names of the
\* files it produces derive from output_name.
C26_OutputNameIsBaseName ==
    (prepared.status = "returned" /\ truthy(prepared.given_name)) =>
        /\ prepared.mode = "individual"
        /\ Cardinality(prepared.output_files) = Cardinality(StemsPrepared)
        /\ \A e \in prepared.output_files : e.path \in NamesFrom(prepared.given_name)

(***************************************************************************)
(* Properties of download_natural_earth                                    *)
(***************************************************************************)
\* C30: download_natural_earth returns True only if the three required
\* shapefiles exist under natural_earth, on every path, and it tries curl,
\* wget and urllib in this order, each only when all before it failed.
C30_TrueOnlyWithRequiredFiles ==
    fetched.status = "returned" =>
        /\ fetched.result => required_files \subseteq ne_dir
        /\ Len(fetched.attempts) <= Len(Methods)
        /\ \A i \in 1..Len(fetched.attempts) :
              /\ fetched.attempts[i] = Methods[i]
              /\ \A j \in 1..(i - 1) : ~fetched.succeeds[Methods[j]]

====
